---- MODULE Spec2Model ----
(***************************************************************************)
(* Verification model of the multizone airflow / contaminant engine.       *)
(*                                                                         *)
(*   Spec, SpecFair : TransientSimulation::run, one action per phase of    *)
(*                    the time-stepping loop.                              *)
(*   SpecCont       : ContaminantSolver (initialize,                       *)
(*                    setInitialConcentration, step / solveSpecies).       *)
(*   SpecElem       : FlowElement::calculate of Fan, CheckValve and        *)
(*                    PowerLawOrifice.                                     *)
(*                                                                         *)
(* Simulation times are integers counted in units of 1e-10 s, so that the  *)
(* 1e-10 tolerances of the driver's comparisons are exactly one unit.      *)
(* Physical quantities of the solvers are exact rationals <<num, den>>.    *)
(***************************************************************************)
EXTENDS Integers, Sequences, FiniteSets, TLC

VARIABLES
    \* ---- TransientSimulation::run ----
    config,       \* TransientConfig: startTime, endTime, timeStep, outputInterval
    feat,         \* which optional inputs are bound (schedules, weather, ...)
    pc,           \* position of run() in its loop
    t,            \* double t
    nextOutput,   \* double nextOutput
    currentDt,    \* double currentDt of the step in progress
    history,      \* result.history: the snapshot times, in push order
    completed,    \* result.completed
    iter,         \* iteration counter of the density-coupling loop
    steps,        \* number of loop iterations started
    phaseLog,     \* phases executed in the step in progress, in order
    emitDue,      \* for each pushed snapshot, nextOutput when it was pushed
    cbCalls,      \* number of progress-callback invocations
    cancelled,    \* the progress callback has returned false
    histAtCb,     \* Len(history) at the last callback invocation
    \* ---- ContaminantSolver ----
    net,          \* the Network the solver is stepped on
    species,      \* species_
    sources,      \* sources_
    rxnNetwork,   \* rxnNetwork_
    C,            \* C_[zone][species]
    cpc,          \* "init" before initialize(), "ready" after
    ctime,        \* time reached by the steps so far
    csteps,       \* number of step() calls so far
    csets,        \* number of setInitialConcentration() calls so far
    genLog,       \* generation terms put on the right-hand side, per step
    ambDonor,     \* concentrations read from Ambient donors in the last step
    clast,        \* the last step: its link mass flows, its dt and C_ before it
    \* ---- FlowElement::calculate ----
    elem,         \* the element under evaluation
    elemIn,       \* the (deltaP, density) it is evaluated at
    elemOut,      \* FlowResult {massFlow, derivative}
    \* ---- Solver::solve and the density coupling of a time step ----
    anet,         \* the Network the airflow is solved on
    asolver,      \* airflowSolver
    aspecies,     \* species_: isTrace and molarMass of each species
    aconc,        \* contSolver.getConcentrations()
    apc,          \* position of the step: "solve", "contaminant", "coupling", "done"
    aiter,        \* iter of the coupling loop
    airResult,    \* airResult
    alast,        \* the last call of solve: its result, and what was observed of it
    arel,         \* maxRelChange of each coupling iteration of the step, in order
    asteps,       \* number of time steps completed
    \* ---- the control step: sensors, controllers, actuators ----
    ctrl,         \* controllers_
    sens,         \* sensors_
    acts,         \* actuators_
    plant,        \* what the sensors read: pressures, temperatures, concentrations, link flows
    kelems,       \* the flow element of each link
    kdt,          \* currentDt of the step
    kpc,          \* position in the step: "sensors", "controllers", "actuators", "airflow"
    klog,         \* the parts of the control step executed in this step, in order
    klast,        \* the controllers and sensors the last updateControllers started from
    kfresh,       \* number of the next element object to be created
    ksteps,       \* number of steps completed
    \* ---- a Schedule on its own ----
    schedPts,     \* points_ of the Schedule
    schedMode,    \* its interpolation mode, "idle" when no schedule is explored
    schedRes,     \* the last getValue call: t and the value returned, <<>> if none since the last addPoint
    schedMoved,   \* some point was added after a point with a later time
    \* ---- WpcReader ----
    wpcIn,        \* the lines of the content read
    wpcKind,      \* the reader that runs and its parameters
    wpcPos,       \* lineNum
    wpcPrev,      \* prevTime
    wpcRecords,   \* records
    wpcStatus,    \* "reading", "returned" or "thrown", "idle" when no reader is explored
    wpcErr,       \* what the exception thrown says
    \* ---- the dynamic sources of a step ----
    dynSetup,     \* species, air handling systems, occupants and static sources of the simulation
    dynExtra,     \* the dynamic sources the ContaminantSolver holds
    dynOccVec,    \* occSources as the last step left it
    dynUsed,      \* the sources the last contaminant solve used
    dynBuilt,     \* the dynamic sources built so far in this step
    dynPrev,      \* the sources the solve before the last used
    dynPc,        \* position in the step: "ahs", "occupants", "solve", "next"
    dynSteps,     \* number of steps completed
    \* ---- the trust-region updates of a solve ----
    trNet,        \* the network whose pressures the updates move
    trRadius,     \* trustRadius of solve
    trLast,       \* the last call of applyUpdateTR
    trCount,      \* number of updates made
    \* ---- the occupant update of a step ----
    occupants,    \* occupants_ of the simulation
    occSpecies,   \* number of species
    occTime,      \* t of run()
    occLast,      \* the last update: the occupants before it, the concentrations and dt it was given
    occSteps,     \* number of steps made
    \* ---- Solver::assembleSystem ----
    asmNet,       \* the network assembleSystem is given
    asmMap,       \* unknownMap
    asmJ,         \* the Jacobian J it leaves
    asmR,         \* the residual R it leaves
    asmPc,        \* "ready" before the call, "assembled" after
    \* ---- the unknown map of Solver::solve ----
    rcmNet,       \* the network solve is given
    rcmOut,       \* rcmPerm of solve
    rcmMap,       \* the reordered unknownMap of solve
    rcmPc         \* "start", "ordered" once rcmPerm is computed, "mapped" once unknownMap is built

runVars  == <<config, feat, pc, t, nextOutput, currentDt, history, completed,
              iter, steps, phaseLog, emitDue, cbCalls, cancelled, histAtCb>>
contVars == <<net, species, sources, rxnNetwork, C, cpc, ctime, csteps,
              csets, genLog, ambDonor, clast>>
elemVars == <<elem, elemIn, elemOut>>
airVars  == <<anet, asolver, aspecies, aconc, apc, aiter, airResult, alast,
              arel, asteps>>
ctlVars  == <<ctrl, sens, acts, plant, kelems, kdt, kpc, klog, klast, kfresh, ksteps>>
schedVars == <<schedPts, schedMode, schedRes, schedMoved>>
wpcVars == <<wpcIn, wpcKind, wpcPos, wpcPrev, wpcRecords, wpcStatus, wpcErr>>
dynVars == <<dynSetup, dynExtra, dynOccVec, dynUsed, dynBuilt, dynPrev, dynPc, dynSteps>>
trVars == <<trNet, trRadius, trLast, trCount>>
occVars == <<occupants, occSpecies, occTime, occLast, occSteps>>
asmVars == <<asmNet, asmMap, asmJ, asmR, asmPc>>
rcmVars == <<rcmNet, rcmOut, rcmMap, rcmPc>>
vars     == <<runVars, contVars, elemVars, airVars, ctlVars, schedVars,
              wpcVars, dynVars, trVars, occVars, asmVars, rcmVars>>

-----------------------------------------------------------------------------
(* Bounds of the explored inputs.                                          *)

MaxEnd == 6
MaxStep == 3
MaxOut == 4
MaxSteps == MaxEnd + 2

-----------------------------------------------------------------------------
(* Small helpers.                                                          *)

Min(a, b) == IF a < b THEN a ELSE b

Last(s) == s[Len(s)]

-----------------------------------------------------------------------------
(* TransientSimulation::run                                                *)

\* the 1e-10 tolerance of the loop and snapshot comparisons (one time unit)
EPS == 1

MAX_COUPLING_ITER == 5

StartTimes == {0, 1}
EndTimes == 0..MaxEnd
TimeSteps == 0..MaxStep
OutputIntervals == (-1)..MaxOut

Configs == [startTime : StartTimes, endTime : EndTimes,
            timeStep : TimeSteps, outputInterval : OutputIntervals]

\* The optional inputs bound to the simulation before run().
FeatureSets ==
    { [tempSched |-> FALSE, weather |-> FALSE, wpc |-> FALSE, controllers |-> FALSE,
       contaminants |-> FALSE, nonTrace |-> FALSE, occupants |-> FALSE, callback |-> FALSE],
      [tempSched |-> TRUE, weather |-> TRUE, wpc |-> TRUE, controllers |-> TRUE,
       contaminants |-> TRUE, nonTrace |-> TRUE, occupants |-> TRUE, callback |-> TRUE],
      [tempSched |-> FALSE, weather |-> TRUE, wpc |-> FALSE, controllers |-> FALSE,
       contaminants |-> TRUE, nonTrace |-> FALSE, occupants |-> TRUE, callback |-> FALSE],
      [tempSched |-> TRUE, weather |-> FALSE, wpc |-> FALSE, controllers |-> TRUE,
       contaminants |-> FALSE, nonTrace |-> FALSE, occupants |-> TRUE, callback |-> TRUE],
      [tempSched |-> FALSE, weather |-> FALSE, wpc |-> TRUE, controllers |-> FALSE,
       contaminants |-> TRUE, nonTrace |-> TRUE, occupants |-> FALSE, callback |-> FALSE],
      [tempSched |-> FALSE, weather |-> FALSE, wpc |-> FALSE, controllers |-> TRUE,
       contaminants |-> TRUE, nonTrace |-> FALSE, occupants |-> FALSE, callback |-> TRUE] }

\* hasContaminants = !species_.empty()
hasContaminants == feat.contaminants

\* hasNonTraceSpecies(): some species has isTrace = false
hasNonTraceSpecies == feat.contaminants /\ feat.nonTrace

\* State of run() after the initial airflow solve and the initial snapshot.
RunInit ==
    /\ config \in Configs
    /\ feat \in FeatureSets
    /\ t = config.startTime
    /\ nextOutput = config.startTime + config.outputInterval
    /\ currentDt = config.timeStep
    /\ history = <<config.startTime>>
    /\ emitDue = <<config.startTime>>
    /\ completed = FALSE
    /\ pc = "loop"
    /\ iter = 0
    /\ steps = 0
    /\ phaseLog = <<>>
    /\ cbCalls = 0
    /\ cancelled = FALSE
    /\ histAtCb = 1

\* LoopHead without the truncation of the last step: currentDt = dt.
LoopHeadNoTruncate ==
    /\ pc = "loop"
    /\ steps < MaxSteps
    /\ IF t < config.endTime - EPS
       THEN /\ currentDt' = config.timeStep
            /\ steps' = steps + 1
            /\ phaseLog' = <<>>
            /\ pc' = "bc"
            /\ UNCHANGED completed
       ELSE /\ completed' = TRUE
            /\ pc' = "done"
            /\ UNCHANGED <<currentDt, steps, phaseLog>>
    /\ UNCHANGED <<config, feat, t, nextOutput, history, iter, emitDue,
                   cbCalls, cancelled, histAtCb>>

\* while (t < endTime - 1e-10) { currentDt = min(dt, endTime - t); ... }
\* result.completed = true; return result;
LoopHead ==
    /\ pc = "loop"
    /\ steps < MaxSteps
    /\ IF t < config.endTime - EPS
       THEN /\ currentDt' = Min(config.timeStep, config.endTime - t)
            /\ steps' = steps + 1
            /\ phaseLog' = <<>>
            /\ pc' = "bc"
            /\ UNCHANGED completed
       ELSE /\ completed' = TRUE
            /\ pc' = "done"
            /\ UNCHANGED <<currentDt, steps, phaseLog>>
    /\ UNCHANGED <<config, feat, t, nextOutput, history, iter, emitDue,
                   cbCalls, cancelled, histAtCb>>

\* BoundaryPhases with the WPC update placed before the weather update.
BoundaryPhasesSwapped(f) ==
    (IF f.tempSched THEN <<"temperature">> ELSE <<>>)
    \o (IF f.wpc THEN <<"wpc">> ELSE <<>>)
    \o (IF f.weather THEN <<"weather">> ELSE <<>>)

\* The phases logged by steps 0, 0b, 0c for the bound inputs.
BoundaryPhases(f) ==
    (IF f.tempSched THEN <<"temperature">> ELSE <<>>)
    \o (IF f.weather THEN <<"weather">> ELSE <<>>)
    \o (IF f.wpc THEN <<"wpc">> ELSE <<>>)

\* Step 0 / 0b / 0c: updateZoneTemperatures, updateWeatherConditions,
\* updateWpcConditions, each only when its input is bound.
UpdateBoundary ==
    /\ pc = "bc"
    /\ phaseLog' = phaseLog \o BoundaryPhases(feat)
    /\ pc' = "control"
    /\ UNCHANGED <<config, feat, t, nextOutput, currentDt, history, completed,
                   iter, steps, emitDue, cbCalls, cancelled, histAtCb>>

\* Step 1: updateSensors, updateControllers, applyActuators.
ControlStep ==
    /\ pc = "control"
    /\ phaseLog' = IF feat.controllers THEN Append(phaseLog, "control") ELSE phaseLog
    /\ pc' = "airflow"
    /\ UNCHANGED <<config, feat, t, nextOutput, currentDt, history, completed,
                   iter, steps, emitDue, cbCalls, cancelled, histAtCb>>

\* Step 2: airResult = airflowSolver.solve(network); a non-converged result
\* is kept and the step goes on.
AirflowSolve ==
    /\ pc = "airflow"
    /\ phaseLog' = Append(phaseLog, "airflow")
    /\ pc' = "contaminant"
    /\ UNCHANGED <<config, feat, t, nextOutput, currentDt, history, completed,
                   iter, steps, emitDue, cbCalls, cancelled, histAtCb>>

\* Step 3: dynamic sources and contSolver.step, then entry of the coupling loop.
ContaminantStep ==
    /\ pc = "contaminant"
    /\ phaseLog' = IF hasContaminants THEN Append(phaseLog, "contaminant") ELSE phaseLog
    /\ iter' = 0
    /\ pc' = IF hasNonTraceSpecies THEN "coupling" ELSE "advance"
    /\ UNCHANGED <<config, feat, t, nextOutput, currentDt, history, completed,
                   steps, emitDue, cbCalls, cancelled, histAtCb>>

\* Step 3b, one iteration of for (iter < MAX_COUPLING_ITER): save densities,
\* updateDensitiesFromConcentrations, re-solve airflow, break when the
\* relative density change (input: small) is below DENSITY_TOL.
CouplingIter ==
    /\ pc = "coupling"
    /\ IF iter < MAX_COUPLING_ITER
       THEN \E small \in BOOLEAN :
               /\ phaseLog' = Append(phaseLog, "coupling")
               /\ iter' = iter + 1
               /\ pc' = IF small THEN "advance" ELSE "coupling"
       ELSE /\ pc' = "advance"
            /\ UNCHANGED <<phaseLog, iter>>
    /\ UNCHANGED <<config, feat, t, nextOutput, currentDt, history, completed,
                   steps, emitDue, cbCalls, cancelled, histAtCb>>

\* t += currentDt; Step 3c: updateOccupantExposure.
AdvanceTime ==
    /\ pc = "advance"
    /\ t' = t + currentDt
    /\ phaseLog' = IF feat.occupants /\ hasContaminants
                   THEN Append(phaseLog, "occupant") ELSE phaseLog
    /\ pc' = "snapshot"
    /\ UNCHANGED <<config, feat, nextOutput, currentDt, history, completed,
                   iter, steps, emitDue, cbCalls, cancelled, histAtCb>>

\* SnapshotDue that records after every step.
SnapshotEveryStep(time, due, cfg) == TRUE

\* if (t >= nextOutput - 1e-10 || t >= endTime - 1e-10)
SnapshotDue(time, due, cfg) == time >= due - EPS \/ time >= cfg.endTime - EPS

\* RecordSnapshot with one push for the output time and one for endTime.
RecordSnapshotTwice ==
    /\ pc = "snapshot"
    /\ LET h1 == IF t >= nextOutput - EPS THEN Append(history, t) ELSE history
           h2 == IF t >= config.endTime - EPS THEN Append(h1, t) ELSE h1
       IN  /\ history' = h2
           /\ emitDue' = emitDue \o [i \in 1..(Len(h2) - Len(history)) |-> nextOutput]
           /\ nextOutput' = IF Len(h2) > Len(history)
                            THEN nextOutput + config.outputInterval ELSE nextOutput
           /\ phaseLog' = IF Len(h2) > Len(history)
                          THEN Append(phaseLog, "snapshot") ELSE phaseLog
    /\ pc' = "callback"
    /\ UNCHANGED <<config, feat, t, currentDt, completed, iter, steps,
                   cbCalls, cancelled, histAtCb>>

\* Step 4: record at output intervals.
RecordSnapshot ==
    /\ pc = "snapshot"
    /\ IF SnapshotDue(t, nextOutput, config)
       THEN /\ history' = Append(history, t)
            /\ emitDue' = Append(emitDue, nextOutput)
            /\ nextOutput' = nextOutput + config.outputInterval
            /\ phaseLog' = Append(phaseLog, "snapshot")
       ELSE UNCHANGED <<history, emitDue, nextOutput, phaseLog>>
    /\ pc' = "callback"
    /\ UNCHANGED <<config, feat, t, currentDt, completed, iter, steps,
                   cbCalls, cancelled, histAtCb>>

\* AfterCallback that ignores the callback's answer.
AfterCallbackIgnored(ok) == "loop"

\* Where run() goes after the callback returned ok.
AfterCallback(ok) == IF ok THEN "loop" ELSE "done"

\* if (progressCb_) { if (!progressCb_(t, endTime)) return result; }
ProgressCallback ==
    /\ pc = "callback"
    /\ IF feat.callback
       THEN \E ok \in BOOLEAN :
               /\ cbCalls' = cbCalls + 1
               /\ histAtCb' = Len(history)
               /\ cancelled' = ~ok
               /\ pc' = AfterCallback(ok)
       ELSE /\ pc' = "loop"
            /\ UNCHANGED <<cbCalls, histAtCb, cancelled>>
    /\ UNCHANGED <<config, feat, t, nextOutput, currentDt, history, completed,
                   iter, steps, phaseLog, emitDue>>

RunNext ==
    \/ LoopHead
    \/ UpdateBoundary
    \/ ControlStep
    \/ AirflowSolve
    \/ ContaminantStep
    \/ CouplingIter
    \/ AdvanceTime
    \/ RecordSnapshot
    \/ ProgressCallback

-----------------------------------------------------------------------------
(* Exact rational arithmetic for the quantities the solvers compute with.  *)
(* A rational is <<numerator, denominator>> in lowest terms, denominator   *)
(* positive.                                                               *)

Abs(x) == IF x < 0 THEN -x ELSE x

RECURSIVE GCD(_, _)
GCD(a, b) == IF b = 0 THEN a ELSE GCD(b, a % b)

RNorm(n, d) ==
    LET g == GCD(Abs(n), Abs(d))
        sgn == IF d < 0 THEN -1 ELSE 1
    IN  <<sgn * (n \div g), sgn * (d \div g)>>

R(n) == <<n, 1>>
RZero == <<0, 1>>
ROne == <<1, 1>>
RAdd(x, y) == RNorm(x[1] * y[2] + y[1] * x[2], x[2] * y[2])
RSub(x, y) == RNorm(x[1] * y[2] - y[1] * x[2], x[2] * y[2])
RMul(x, y) == RNorm(x[1] * y[1], x[2] * y[2])
RDiv(x, y) == RNorm(x[1] * y[2], x[2] * y[1])
RNeg(x) == <<-x[1], x[2]>>
RLt(x, y) == x[1] * y[2] < y[1] * x[2]
RLe(x, y) == x[1] * y[2] <= y[1] * x[2]
RAbs(x) == <<Abs(x[1]), x[2]>>

\* f itself, once TLC has tabulated it (a function is otherwise re-evaluated
\* at every application)
Tabulated(f) == IF f = f THEN f ELSE f

\* the sum of f[i] over the finite set S of indices
RECURSIVE RSum(_, _)
RSum(f, S) ==
    IF S = {} THEN RZero
    ELSE LET i == CHOOSE j \in S : TRUE
         IN  RAdd(f[i], RSum(f, S \ {i}))

\* determinant of the n x n matrix M (rows and columns 0..n-1), by expansion
\* along row 0
RECURSIVE Det(_, _)
Det(M, n) ==
    IF n = 0 THEN ROne
    ELSE IF n = 1 THEN M[0][0]
    ELSE LET Minor(c) == [i \in 0..(n - 2) |-> [j \in 0..(n - 2) |->
                              M[i + 1][IF j < c THEN j ELSE j + 1]]]
             Term(c) == RMul(IF c % 2 = 0 THEN M[0][c] ELSE RNeg(M[0][c]),
                             Det(Minor(c), n - 1))
         IN  RSum([c \in 0..(n - 1) |-> Term(c)], 0..(n - 1))

\* The solution x of A x = b for a non-singular n x n matrix A (the result
\* of A.colPivHouseholderQr().solve(b) in exact arithmetic), by Cramer's rule.
LinearSolve(A, b, n) ==
    LET Repl(c) == [i \in 0..(n - 1) |-> [j \in 0..(n - 1) |->
                        IF j = c THEN b[i] ELSE A[i][j]]]
    IN  Tabulated([c \in 0..(n - 1) |-> RDiv(Det(Repl(c), n), Det(A, n))])

-----------------------------------------------------------------------------
(* Schedule                                                                *)

\* Schedule::getValue(t): pts is the sorted list of (time, value) points
ScheduleGetValue(pts, time) ==
    IF Len(pts) = 0 THEN ROne
    ELSE IF Len(pts) = 1 THEN pts[1].value
    ELSE IF RLe(time, pts[1].time) THEN pts[1].value
    ELSE IF RLe(pts[Len(pts)].time, time) THEN pts[Len(pts)].value
    ELSE LET i == CHOOSE k \in 1..(Len(pts) - 1) :
                     /\ RLe(pts[k].time, time) /\ RLe(time, pts[k + 1].time)
                     /\ \A m \in 1..(k - 1) :
                          ~(RLe(pts[m].time, time) /\ RLe(time, pts[m + 1].time))
             dt == RSub(pts[i + 1].time, pts[i].time)
             alpha == RDiv(RSub(time, pts[i].time), dt)
         IN  IF dt = RZero THEN pts[i].value
             ELSE RAdd(RMul(pts[i].value, RSub(ROne, alpha)),
                       RMul(pts[i + 1].value, alpha))

-----------------------------------------------------------------------------
(* ContaminantSolver                                                       *)

MaxContSteps == 2
MaxSetCalls == 1

\* 0-based vector from a sequence
Vec(s) == [i \in 0..(Len(s) - 1) |-> s[i + 1]]

\* Networks the solver is run on: node category, volume and density per
\* node index, and the links' end nodes.
Networks ==
    { [type    |-> Vec(<<"Ambient", "Normal", "Normal">>),
       volume  |-> Vec(<<R(0), R(2), R(1)>>),
       density |-> Vec(<<R(1), R(1), R(2)>>),
       links   |-> Vec(<<[from |-> 0, to |-> 1], [from |-> 1, to |-> 2],
                         [from |-> 2, to |-> 0]>>)],
      [type    |-> Vec(<<"Normal", "Phantom">>),
       volume  |-> Vec(<<R(1), R(0)>>),
       density |-> Vec(<<R(1), R(1)>>),
       links   |-> Vec(<<[from |-> 0, to |-> 1], [from |-> 1, to |-> 0]>>)],
      [type    |-> Vec(<<"Ambient", "Ambient">>),
       volume  |-> Vec(<<R(0), R(0)>>),
       density |-> Vec(<<R(1), R(1)>>),
       links   |-> Vec(<<[from |-> 0, to |-> 1], [from |-> 1, to |-> 0]>>)],
      [type    |-> Vec(<<"Ambient", "Normal">>),
       volume  |-> Vec(<<R(0), R(2)>>),
       density |-> Vec(<<R(2), R(1)>>),
       links   |-> Vec(<<[from |-> 0, to |-> 1], [from |-> 1, to |-> 0]>>)] }

\* Inputs of a step: the mass flows cached on the links by the airflow solve
\* that precedes it, and the step size dt.
StepInputs(n) ==
    IF DOMAIN n.links = 0..2
    THEN { [flows |-> Vec(<<R(0), R(0), R(0)>>), dt |-> R(1)],
           [flows |-> Vec(<<R(1), R(1), R(1)>>), dt |-> R(2)],
           [flows |-> Vec(<<R(-1), R(0), R(-1)>>), dt |-> R(1)] }
    ELSE { [flows |-> Vec(<<R(0), R(0)>>), dt |-> R(1)],
           [flows |-> Vec(<<R(1), R(1)>>), dt |-> R(2)],
           [flows |-> Vec(<<R(1), R(-1)>>), dt |-> R(1)] }

\* Calls of setInitialConcentration(nodeIdx, speciesIdx, conc).
SetCalls ==
    { [nodeIdx |-> 0, speciesIdx |-> 0, conc |-> R(3)],
      [nodeIdx |-> 1, speciesIdx |-> 1, conc |-> R(-1)],
      [nodeIdx |-> -1, speciesIdx |-> 0, conc |-> R(3)] }

Src(zone, spec, type, gen, rem, sched) ==
    [zoneId |-> zone, speciesId |-> spec, type |-> type,
     generationRate |-> gen, removalRate |-> rem, scheduleId |-> sched,
     decayTimeConstant |-> R(1), startTime |-> R(0), multiplier |-> R(1)]

Sp(id, decay, outdoor) == [id |-> id, decayRate |-> decay, outdoorConc |-> outdoor]

\* species, sources and reaction network handed to the solver before initialize
Setups ==
    { [species |-> Vec(<<Sp(0, R(0), R(0)), Sp(1, R(0), R(0))>>),
       sources |-> <<Src(1, 0, "Constant", R(1), R(0), -1)>>,
       rxn     |-> <<[from |-> 0, to |-> 1, rate |-> R(1)]>>],
      [species |-> Vec(<<Sp(0, R(0), R(0)), Sp(1, R(0), R(0))>>),
       sources |-> <<Src(1, 0, "Constant", R(1), R(0), -1)>>,
       rxn     |-> <<>>],
      [species |-> Vec(<<Sp(0, R(1), R(1)), Sp(1, R(0), R(2))>>),
       sources |-> <<Src(1, 1, "Constant", R(-1), R(1), -1),
                     Src(0, 0, "Constant", R(1), R(0), 3)>>,
       rxn     |-> <<>>],
      [species |-> Vec(<<Sp(0, R(0), R(1)), Sp(1, R(1), R(0))>>),
       sources |-> <<Src(1, 0, "ExponentialDecay", R(2), R(0), -1),
                     Src(1, 1, "Constant", R(1), R(0), 0),
                     Src(7, 0, "Constant", R(1), R(0), -1)>>,
       rxn     |-> <<>>],
      [species |-> Vec(<<Sp(0, R(0), R(1))>>),
       sources |-> <<>>,
       rxn     |-> <<>>],
      [species |-> Vec(<<>>),
       sources |-> <<>>,
       rxn     |-> <<>>] }

\* schedules_: schedule 0 is off until t = 1 and fully on from t = 3
Schedules ==
    [id \in {0} |-> <<[time |-> R(1), value |-> R(0)], [time |-> R(3), value |-> R(1)]>>]

numZones == IF cpc = "idle" THEN 0 ELSE Cardinality(DOMAIN net.type)
numSpecies == IF cpc = "idle" THEN 0 ELSE Cardinality(DOMAIN species)

\* Node::isKnownPressure()
isKnownPressure(n, i) == n.type[i] = "Ambient"

\* Network::getNodeIndexById: node ids are the node indices; -1 if absent
getNodeIndexById(n, id) == IF id \in DOMAIN n.type THEN id ELSE -1

\* ContaminantSolver::initialize: zero everywhere, outdoorConc in Ambient zones
InitialC(n, sp) ==
    [i \in DOMAIN n.type |-> [k \in DOMAIN sp |->
        IF isKnownPressure(n, i) THEN sp[k].outdoorConc ELSE RZero]]

\* State after setSpecies, setSources, setSchedules, setReactionNetwork and
\* initialize(network).
ContInit ==
    /\ net \in Networks
    /\ \E su \in Setups :
          /\ species = su.species
          /\ sources = su.sources
          /\ rxnNetwork = su.rxn
    /\ C = IF DOMAIN species = {} THEN <<>> ELSE InitialC(net, species)
    /\ cpc = "ready"
    /\ ctime = RZero
    /\ csteps = 0
    /\ csets = 0
    /\ genLog = <<>>
    /\ ambDonor = {}
    /\ clast = <<>>

\* ContaminantSolver::setInitialConcentration(nodeIdx, speciesIdx, conc)
SetInitialConcentration(nodeIdx, speciesIdx, conc) ==
    /\ cpc \in {"ready", "stepped"}
    /\ csets < MaxSetCalls
    /\ csets' = csets + 1
    /\ C' = IF /\ nodeIdx >= 0 /\ nodeIdx < numZones
               /\ speciesIdx >= 0 /\ speciesIdx < numSpecies
            THEN [C EXCEPT ![nodeIdx][speciesIdx] = conc]
            ELSE C
    /\ cpc' = "ready"
    /\ UNCHANGED <<net, species, sources, rxnNetwork, ctime, csteps, genLog, ambDonor,
                   clast>>

\* ContaminantSolver::getScheduleValue
getScheduleValue(scheduleId, time) ==
    IF scheduleId < 0 THEN ROne
    ELSE IF scheduleId \notin DOMAIN Schedules THEN ROne
    ELSE ScheduleGetValue(Schedules[scheduleId], time)

\* unknownMap of solveSpecies: equation index of a non-Ambient zone, else -1
unknownMap(n, i) ==
    IF isKnownPressure(n, i) THEN -1
    ELSE Cardinality({j \in DOMAIN n.type : j < i /\ ~isKnownPressure(n, j)})

numUnknown(n) == Cardinality({j \in DOMAIN n.type : ~isKnownPressure(n, j)})

\* the zone of equation eq
ZoneOf(n, eq) == CHOOSE i \in DOMAIN n.type : unknownMap(n, i) = eq

\* the upwind (donor) and downwind (receiver) node of a link with flow mf
Donor(l, mf) == IF RLt(RZero, mf) THEN l.from ELSE l.to
Receiver(l, mf) == IF RLt(RZero, mf) THEN l.to ELSE l.from

\* flowRate = |massFlow| / density of the donor node
FlowRate(n, l, mf) == RDiv(RAbs(mf), n.density[Donor(l, mf)])

\* the sources solveSpecies applies for species index k, by position in sources_
AppliedSources(n, sp, srcs, k) ==
    {s \in 1..Len(srcs) :
        /\ srcs[s].speciesId = sp[k].id
        /\ getNodeIndexById(n, srcs[s].zoneId) >= 0
        /\ unknownMap(n, getNodeIndexById(n, srcs[s].zoneId)) >= 0}

\* Generation term a source puts on the right-hand side of the step ending
\* at tEnd: src.generationRate * scheduleMult.
GenerationTerm(src, tEnd) ==
    RMul(src.generationRate, getScheduleValue(src.scheduleId, tEnd))

\* ClampNonNegative without the clamp.
ClampNothing(x) == x

\* std::max(0.0, x)
ClampNonNegative(x) == IF RLt(x, RZero) THEN RZero ELSE x

\* The concentration solveSpecies reads for an Ambient donor: C_[node][specIdx].
AmbientDonorConc(conc, sp, node, k) == conc[node][k]

\* ContaminantSolver::solveSpecies: the matrix A of species k
SystemMatrix(n, sp, srcs, conc, flows, k, dt) ==
    LET nu == numUnknown(n)
        Vi(i) == IF RLe(n.volume[i], RZero) THEN ROne ELSE n.volume[i]
        Live == {l \in DOMAIN n.links : flows[l] # RZero}
        Diag(i) ==
            RAdd(RAdd(RDiv(Vi(i), dt),
                      IF RLt(RZero, sp[k].decayRate)
                      THEN RMul(sp[k].decayRate, Vi(i)) ELSE RZero),
                 RAdd(RSum([l \in Live |-> FlowRate(n, n.links[l], flows[l])],
                           {l \in Live : Donor(n.links[l], flows[l]) = i}),
                      RSum([s \in 1..Len(srcs) |->
                               RMul(srcs[s].removalRate, n.volume[i])],
                           {s \in AppliedSources(n, sp, srcs, k) :
                               /\ getNodeIndexById(n, srcs[s].zoneId) = i
                               /\ RLt(RZero, srcs[s].removalRate)})))
        Off(r, c) ==
            RSum([l \in Live |-> FlowRate(n, n.links[l], flows[l])],
                 {l \in Live : /\ Donor(n.links[l], flows[l]) = c
                               /\ Receiver(n.links[l], flows[l]) = r})
    IN  Tabulated([er \in 0..(nu - 1) |-> [ec \in 0..(nu - 1) |->
            RSub(IF er = ec THEN Diag(ZoneOf(n, er)) ELSE RZero,
                 Off(ZoneOf(n, er), ZoneOf(n, ec)))]])

\* a right-hand side without what the zone held
storageRhsNone(Vi, dt, cOld) == RZero

\* RHS: V/dt * C_old
storageRhs(Vi, dt, cOld) == RMul(RDiv(Vi, dt), cOld)

\* ContaminantSolver::solveSpecies: the right-hand side b of species k
SystemRhs(n, sp, srcs, conc, flows, k, tt, dt) ==
    LET nu == numUnknown(n)
        Vi(i) == IF RLe(n.volume[i], RZero) THEN ROne ELSE n.volume[i]
        Live == {l \in DOMAIN n.links : flows[l] # RZero}
        Rhs(i) ==
            RAdd(storageRhs(Vi(i), dt, conc[i][k]),
                 RAdd(RSum([l \in Live |->
                              RMul(FlowRate(n, n.links[l], flows[l]),
                                   AmbientDonorConc(conc, sp, Donor(n.links[l], flows[l]), k))],
                           {l \in Live : /\ Receiver(n.links[l], flows[l]) = i
                                         /\ isKnownPressure(n, Donor(n.links[l], flows[l]))}),
                      RSum([s \in 1..Len(srcs) |-> GenerationTerm(srcs[s], RAdd(tt, dt))],
                           {s \in AppliedSources(n, sp, srcs, k) :
                               getNodeIndexById(n, srcs[s].zoneId) = i})))
    IN  Tabulated([e \in 0..(nu - 1) |-> Rhs(ZoneOf(n, e))])

\* ContaminantSolver::solveSpecies: C_ after solving species k
solveSpecies(n, sp, srcs, conc, flows, k, tt, dt) ==
    IF numUnknown(n) = 0 THEN conc
    ELSE LET Cnew == LinearSolve(SystemMatrix(n, sp, srcs, conc, flows, k, dt),
                                 SystemRhs(n, sp, srcs, conc, flows, k, tt, dt),
                                 numUnknown(n))
         IN  Tabulated([i \in DOMAIN conc |-> [kk \in DOMAIN conc[i] |->
                 IF kk = k /\ unknownMap(n, i) >= 0
                 THEN ClampNonNegative(Cnew[unknownMap(n, i)])
                 ELSE conc[i][kk]]])

\* for (k = 0; k < numSpecies_; ++k) solveSpecies(network, k, t, dt)
RECURSIVE SolveAll(_, _, _, _, _, _, _, _)
SolveAll(n, sp, srcs, conc, flows, k, tt, dt) ==
    IF k \notin DOMAIN sp THEN conc
    ELSE SolveAll(n, sp, srcs, solveSpecies(n, sp, srcs, conc, flows, k, tt, dt),
                  flows, k + 1, tt, dt)

\* Update ambient node concentrations to outdoor values (end of step)
ResetAmbient(n, sp, conc) ==
    [i \in DOMAIN conc |-> [k \in DOMAIN conc[i] |->
        IF isKnownPressure(n, i) THEN sp[k].outdoorConc ELSE conc[i][k]]]

\* C_ after ContaminantSolver::step(network, t, dt): every species is solved
\* on its own, whatever rxnNetwork_ holds
StepResult(n, sp, srcs, rxn, conc, flows, tt, dt) ==
    IF DOMAIN sp = {} THEN conc
    ELSE ResetAmbient(n, sp, SolveAll(n, sp, srcs, conc, flows, 0, tt, dt))

\* ContaminantSolver::step(network, t, dt) on the network with the given
\* link mass flows
ContStep(flows, dt) ==
    /\ cpc \in {"ready", "stepped"}
    /\ csteps < MaxContSteps
    /\ C' = StepResult(net, species, sources, rxnNetwork, C, flows, ctime, dt)
    /\ genLog' = Append(genLog,
          [s \in 1..Len(sources) |-> GenerationTerm(sources[s], RAdd(ctime, dt))])
    /\ ambDonor' =
          {<<k, AmbientDonorConc(C, species, Donor(net.links[l], flows[l]), k)>> :
              k \in DOMAIN species,
              l \in {m \in DOMAIN net.links :
                        /\ flows[m] # RZero
                        /\ isKnownPressure(net, Donor(net.links[m], flows[m]))
                        /\ ~isKnownPressure(net, Receiver(net.links[m], flows[m]))}}
    /\ clast' = [flows |-> flows, dt |-> dt, before |-> C]
    /\ ctime' = RAdd(ctime, dt)
    /\ csteps' = csteps + 1
    /\ cpc' = "stepped"
    /\ UNCHANGED <<net, species, sources, rxnNetwork, csets>>

ContNext ==
    \/ \E in \in StepInputs(net) : ContStep(in.flows, in.dt)
    \/ \E call \in SetCalls :
          SetInitialConcentration(call.nodeIdx, call.speciesIdx, call.conc)

-----------------------------------------------------------------------------
(* FlowElement::calculate of Fan, CheckValve and PowerLawOrifice.          *)
(*                                                                         *)
(* A FlowResult derivative is kept as a mantissa and a power of ten,       *)
(* [m |-> rational, e |-> exponent], so that the 1e-10 and 1e-12 floors    *)
(* of the elements are exact.  The inputs explored have denominators far   *)
(* below 1e12, so a magnitude is under one of the tiny thresholds          *)
(* (1e-12, 1e-15, 1e-20) exactly when it is zero.                          *)

Sci(m, e) == [m |-> m, e |-> e]

\* |x| < 1e-12, 1e-15 or 1e-20, for the rationals explored
BelowTiny(x) == x = RZero

\* the integer square root of a perfect square v
ISqrt(v) == CHOOSE k \in 0..v : k * k >= v

RSqrt(x) == <<ISqrt(x[1]), ISqrt(x[2])>>

\* std::pow(x, p) for x > 0 a rational square and p one of 1, 1/2, 0, -1/2
Pow(x, p) ==
    CASE p = R(1)     -> x
      [] p = <<1, 2>>  -> RSqrt(x)
      [] p = R(0)     -> ROne
      [] p = <<-1, 2>> -> RDiv(ROne, RSqrt(x))

DP_MIN == <<1, 10000>>

\* Fan::evalCurve(Q) = sum coeffs[i] * Q^i
RECURSIVE evalCurveFrom(_, _, _, _)
evalCurveFrom(coeffs, Q, i, Qpow) ==
    IF i > Len(coeffs) THEN RZero
    ELSE RAdd(RMul(coeffs[i], Qpow), evalCurveFrom(coeffs, Q, i + 1, RMul(Qpow, Q)))

evalCurve(coeffs, Q) == evalCurveFrom(coeffs, Q, 1, ROne)

\* Fan::evalCurveDerivative(Q) = sum i * coeffs[i] * Q^(i-1)
RECURSIVE evalCurveDerivativeFrom(_, _, _, _)
evalCurveDerivativeFrom(coeffs, Q, i, Qpow) ==
    IF i > Len(coeffs) THEN RZero
    ELSE RAdd(RMul(RMul(R(i - 1), coeffs[i]), Qpow),
              evalCurveDerivativeFrom(coeffs, Q, i + 1, RMul(Qpow, Q)))

evalCurveDerivative(coeffs, Q) == evalCurveDerivativeFrom(coeffs, Q, 2, ROne)

\* iteration limit of Fan::solveForFlow
FAN_NEWTON_ITER == 50

\* Fan::solveForFlow: the Newton loop from iterate Q with left iterations.
\* An iteration that leaves Q where it was (the clamp at 0) is repeated
\* unchanged by all the remaining ones, so the loop's result is that Q.
RECURSIVE NewtonFrom(_, _, _, _)
NewtonFrom(coeffs, deltaP, Q, left) ==
    IF left = 0 THEN Q
    ELSE LET f == RSub(evalCurve(coeffs, Q), deltaP)
             fp == evalCurveDerivative(coeffs, Q)
         IN  IF BelowTiny(fp) THEN Q
             ELSE LET dQ == RNeg(RDiv(f, fp))
                      Qn == IF RLt(RAdd(Q, dQ), RZero) THEN RZero ELSE RAdd(Q, dQ)
                  IN  IF BelowTiny(dQ) \/ Qn = Q THEN Qn
                      ELSE NewtonFrom(coeffs, deltaP, Qn, left - 1)

\* Fan::solveForFlow(deltaP) of a fan whose maxFlow_ is maxFlow
solveForFlow(coeffs, maxFlow, deltaP) ==
    NewtonFrom(coeffs, deltaP,
               IF RLt(RZero, maxFlow) THEN RMul(maxFlow, <<1, 2>>) ELSE <<1, 20>>,
               FAN_NEWTON_ITER)

\* Fan::Fan(maxFlow, shutoffPressure)
FanLinear(maxFlow, shutoffPressure) ==
    [kind |-> "Fan", usePolynomial |-> FALSE, maxFlow |-> maxFlow,
     shutoffPressure |-> RAbs(shutoffPressure), coeffs |-> <<>>]

\* Fan::Fan(coeffs): maxFlow_ = solveForFlow(0.0), or 0.1 if that is not positive
FanPolynomial(coeffs) ==
    LET q0 == solveForFlow(coeffs, RZero, RZero)
    IN  [kind |-> "Fan", usePolynomial |-> TRUE,
         maxFlow |-> IF RLe(q0, RZero) THEN <<1, 10>> ELSE q0,
         shutoffPressure |-> RAbs(coeffs[1]), coeffs |-> coeffs]

\* CheckValve::CheckValve(C, n): linearSlope_ = 1.2 * C * DP_MIN^n / DP_MIN
CheckValve(Cc, n) ==
    [kind |-> "CheckValve", C |-> Cc, n |-> n,
     linearSlope |-> RDiv(RMul(RMul(<<6, 5>>, Cc), Pow(DP_MIN, n)), DP_MIN)]

\* PowerLawOrifice::PowerLawOrifice(C, n): linearSlope_ = C * DP_MIN^(n-1)
PowerLawOrifice(Cc, n) ==
    [kind |-> "PowerLawOrifice", C |-> Cc, n |-> n,
     linearSlope |-> RMul(Cc, Pow(DP_MIN, RSub(n, ROne)))]

\* Fan::calculate
FanCalculate(el, deltaP, density) ==
    LET Qraw == IF el.usePolynomial
                THEN solveForFlow(el.coeffs, el.maxFlow, deltaP)
                ELSE RMul(el.maxFlow, RSub(ROne, RDiv(deltaP, el.shutoffPressure)))
        Q == IF RLt(Qraw, RZero) THEN RZero ELSE Qraw
        dPdQ == evalCurveDerivative(el.coeffs, Q)
        dQdP == IF el.usePolynomial
                THEN (IF ~BelowTiny(dPdQ) THEN Sci(RDiv(ROne, dPdQ), 0)
                      ELSE Sci(R(-1), -10))
                ELSE Sci(RNeg(RDiv(el.maxFlow, el.shutoffPressure)), 0)
    IN  [massFlow |-> RMul(density, Q),
         derivative |-> IF RLe(Q, RZero) THEN Sci(RNeg(density), -10)
                        ELSE Sci(RMul(density, dQdP.m), dQdP.e)]

\* CheckValve::calculate
CheckValveCalculate(el, deltaP, density) ==
    IF RLe(deltaP, RZero)
    THEN [massFlow |-> RZero, derivative |-> Sci(density, -12)]
    ELSE IF RLt(deltaP, DP_MIN)
    THEN [massFlow |-> RMul(el.linearSlope, deltaP),
          derivative |-> Sci(el.linearSlope, 0)]
    ELSE [massFlow |-> RMul(RMul(density, el.C), Pow(deltaP, el.n)),
          derivative |-> Sci(RMul(RMul(RMul(density, el.n), el.C),
                                  Pow(deltaP, RSub(el.n, ROne))), 0)]

\* PowerLawOrifice::calculate
PowerLawOrificeCalculate(el, deltaP, density) ==
    LET absDp == RAbs(deltaP)
        sign == IF RLe(RZero, deltaP) THEN R(1) ELSE R(-1)
    IN  IF RLt(absDp, DP_MIN)
        THEN [massFlow |-> RMul(RMul(density, el.linearSlope), deltaP),
              derivative |-> Sci(RMul(density, el.linearSlope), 0)]
        ELSE [massFlow |-> RMul(RMul(density, RMul(el.C, Pow(absDp, el.n))), sign),
              derivative |-> Sci(RMul(RMul(RMul(density, el.n), el.C),
                                      Pow(absDp, RSub(el.n, ROne))), 0)]

\* FlowElement::calculate, dispatched on the element's class
Calculate(el, deltaP, density) ==
    CASE el.kind = "Fan" -> FanCalculate(el, deltaP, density)
      [] el.kind = "CheckValve" -> CheckValveCalculate(el, deltaP, density)
      [] el.kind = "PowerLawOrifice" -> PowerLawOrificeCalculate(el, deltaP, density)

\* the elements explored, as their constructors leave them
Elements ==
    { FanLinear(R(1), R(2)), FanLinear(R(2), R(-1)),
      FanPolynomial(<<R(2), R(-1)>>), FanPolynomial(<<R(1), R(0)>>),
      FanPolynomial(<<R(-1), R(1), R(0)>>),
      CheckValve(R(1), <<1, 2>>), CheckValve(R(2), R(1)),
      PowerLawOrifice(R(1), <<1, 2>>), PowerLawOrifice(R(2), R(1)) }

\* pressure differences: both signs, zero, below, at and above DP_MIN
DeltaPs == {R(-4), R(-1), <<-1, 40000>>, R(0), <<1, 40000>>, DP_MIN,
            <<1, 4>>, R(1), R(4), R(9)}

Densities == {R(1), <<6, 5>>, R(2)}

ElemInit ==
    /\ elem \in Elements
    /\ elemIn = <<>>
    /\ elemOut = <<>>

\* one call elem.calculate(deltaP, density)
CalculateCall(deltaP, density) ==
    /\ elem # <<>>
    /\ elemIn' = <<deltaP, density>>
    /\ elemOut' = Calculate(elem, deltaP, density)
    /\ UNCHANGED elem

ElemNext == \E deltaP \in DeltaPs, density \in Densities : CalculateCall(deltaP, density)

-----------------------------------------------------------------------------
(* Solver: the pressure-flow network and Solver::solve.                    *)
(*                                                                         *)
(* Pressures are counted in units of the atmospheric pressure, and         *)
(* temperatures and lengths in the units in which the gas constant of air  *)
(* and the gravitational acceleration are 1, so that the densities         *)
(* (P_ATM + P) / (R_AIR * T) are small exact rationals.                    *)

MaxNewton == 2
MaxAirSteps == 2

P_ATM == ROne
R_AIR == ROne
GRAVITY == ROne

\* 10^e, for the exponent of a FlowResult derivative
RECURSIVE Pow10(_)
Pow10(e) ==
    IF e = 0 THEN ROne
    ELSE IF e > 0 THEN RMul(R(10), Pow10(e - 1))
    ELSE RDiv(Pow10(e + 1), R(10))

\* the double a FlowResult derivative stands for
SciValue(sc) == IF sc.e = 0 THEN sc.m ELSE RMul(sc.m, Pow10(sc.e))

\* a Link: end nodes, reference elevation, flow element (<<>> if none) and
\* the cached mass flow and derivative
MkLink(from, to, elev, el) ==
    [from |-> from, to |-> to, elev |-> elev, elem |-> el,
     massFlow |-> RZero, derivative |-> RZero]

\* a Network: per node its type, gauge pressure, temperature, elevation and
\* density; and the links
MkNetwork(types, Ps, Ts, Zs, links) ==
    [type |-> Vec(types), P |-> Vec(Ps), T |-> Vec(Ts), Z |-> Vec(Zs),
     rho |-> [i \in DOMAIN Vec(types) |-> RZero], links |-> Vec(links)]

getNodeCount(nw) == Cardinality(DOMAIN nw.type)
getLinkCount(nw) == Cardinality(DOMAIN nw.links)

\* Network::updateAllDensities: every node's density from its gauge pressure
\* plus the atmospheric baseline and its temperature
updateAllDensities(nw) ==
    [nw EXCEPT !.rho = [i \in DOMAIN nw.type |->
        RDiv(RAdd(P_ATM, nw.P[i]), RMul(R_AIR, nw.T[i]))]]

\* Solver::computeDeltaP
computeDeltaP(nw, l) ==
    LET pEffI == RSub(nw.P[l.from],
                      RMul(RMul(nw.rho[l.from], GRAVITY), RSub(l.elev, nw.Z[l.from])))
        pEffJ == RSub(nw.P[l.to],
                      RMul(RMul(nw.rho[l.to], GRAVITY), RSub(l.elev, nw.Z[l.to])))
    IN  RSub(pEffI, pEffJ)

\* link.setMassFlow(result.massFlow); link.setDerivative(result.derivative)
setLinkResult(l, result) ==
    [l EXCEPT !.massFlow = result.massFlow, !.derivative = SciValue(result.derivative)]

\* Solver::computeFlows, for one link
computeLinkFlow(nw, l) ==
    IF l.elem = <<>> THEN l
    ELSE setLinkResult(l, Calculate(l.elem, computeDeltaP(nw, l),
                          RMul(<<1, 2>>, RAdd(nw.rho[l.from], nw.rho[l.to]))))

\* Solver::computeFlows
computeFlows(nw) ==
    [nw EXCEPT !.links = Tabulated([k \in DOMAIN nw.links |->
                                       computeLinkFlow(nw, nw.links[k])])]

\* baseUnknownMap of solve: equation index of a non-Ambient node, else -1
baseUnknownMap(nw, i) ==
    IF nw.type[i] = "Ambient" THEN -1
    ELSE Cardinality({j \in DOMAIN nw.type : j < i /\ nw.type[j] # "Ambient"})

\* n of solve, Network::getUnknownCount
getUnknownCount(nw) == Cardinality({j \in DOMAIN nw.type : nw.type[j] # "Ambient"})

\* adj of computeRCMOrdering: the unknowns linked to unknown a
rcmAdj(nw, a) ==
    {b \in 0..(getUnknownCount(nw) - 1) :
        /\ b # a
        /\ \E k \in DOMAIN nw.links :
              LET eqI == baseUnknownMap(nw, nw.links[k].from)
                  eqJ == baseUnknownMap(nw, nw.links[k].to)
              IN  (eqI = a /\ eqJ = b) \/ (eqI = b /\ eqJ = a)}

rcmDegree(nw, a) == Cardinality(rcmAdj(nw, a))

\* the elements of S in ascending order of (degree, index)
RECURSIVE rcmSorted(_, _)
rcmSorted(nw, S) ==
    IF S = {} THEN <<>>
    ELSE LET m == CHOOSE a \in S : \A b \in S :
                     \/ rcmDegree(nw, a) < rcmDegree(nw, b)
                     \/ (rcmDegree(nw, a) = rcmDegree(nw, b) /\ a <= b)
         IN  <<m>> \o rcmSorted(nw, S \ {m})

\* the elements of S in ascending order
RECURSIVE Ascending(_)
Ascending(S) ==
    IF S = {} THEN <<>>
    ELSE LET m == CHOOSE a \in S : \A b \in S : a <= b
         IN  <<m>> \o Ascending(S \ {m})

\* the breadth-first loop of computeRCMOrdering: <<cmOrder, visited>>
RECURSIVE rcmBfs(_, _, _, _)
rcmBfs(nw, queue, visited, order) ==
    IF queue = <<>> THEN <<order, visited>>
    ELSE LET node == Head(queue)
             nbs == rcmSorted(nw, rcmAdj(nw, node) \ visited)
         IN  rcmBfs(nw, Tail(queue) \o nbs,
                    visited \cup {nbs[q] : q \in 1..Len(nbs)},
                    Append(order, node))

Reverse(sq) == [q \in 1..Len(sq) |-> sq[Len(sq) + 1 - q]]

\* an ordering that ends with the breadth-first search
computeRCMOrderingReached(nw) ==
    LET n == getUnknownCount(nw)
    IN  IF n <= 1 THEN [q \in 1..n |-> q - 1]
        ELSE LET startNode == CHOOSE a \in 0..(n - 1) : \A b \in 0..(n - 1) :
                                 \/ rcmDegree(nw, a) < rcmDegree(nw, b)
                                 \/ (rcmDegree(nw, a) = rcmDegree(nw, b) /\ a <= b)
             IN  Reverse(rcmBfs(nw, <<startNode>>, {startNode}, <<>>)[1])

\* Solver::computeRCMOrdering: rcmPerm, with rcmPerm[new + 1] = old
computeRCMOrdering(nw) ==
    LET n == getUnknownCount(nw)
    IN  IF n <= 1 THEN [q \in 1..n |-> q - 1]
        ELSE LET startNode == CHOOSE a \in 0..(n - 1) : \A b \in 0..(n - 1) :
                                 \/ rcmDegree(nw, a) < rcmDegree(nw, b)
                                 \/ (rcmDegree(nw, a) = rcmDegree(nw, b) /\ a <= b)
                 bfs == rcmBfs(nw, <<startNode>>, {startNode}, <<>>)
             IN  Reverse(bfs[1] \o Ascending((0..(n - 1)) \ bfs[2]))

\* unknownMap of solve: the reordered equation index of node i, else -1
solveUnknownMap(nw, i) ==
    LET base == baseUnknownMap(nw, i)
        rcmPerm == computeRCMOrdering(nw)
    IN  IF base < 0 THEN -1
        ELSE (CHOOSE q \in 1..Len(rcmPerm) : rcmPerm[q] = base) - 1

\* a Jacobian in which the last link that touches an entry overwrites what
\* the links before it put there
assembleJOverwrite(nw, umap, n) ==
    LET Touches(l, a, b) ==
            \/ umap[l.from] = a /\ (a = b \/ umap[l.to] = b)
            \/ umap[l.to] = a /\ (a = b \/ umap[l.from] = b)
        Hits(a, b) == {k \in DOMAIN nw.links : Touches(nw.links[k], a, b)}
        LastHit(a, b) == CHOOSE k \in Hits(a, b) : \A m \in Hits(a, b) : m <= k
    IN  Tabulated([a \in 0..(n - 1) |-> [b \in 0..(n - 1) |->
            IF Hits(a, b) = {} THEN RZero
            ELSE IF a = b THEN RNeg(nw.links[LastHit(a, b)].derivative)
            ELSE nw.links[LastHit(a, b)].derivative]])

\* Solver::assembleSystem: the Jacobian J
assembleJ(nw, umap, n) ==
    LET Stamp(l, a, b) ==
            LET eqI == umap[l.from]
                eqJ == umap[l.to]
                d == l.derivative
            IN  RAdd(RAdd(IF eqI = a /\ a = b THEN RNeg(d) ELSE RZero,
                          IF eqI = a /\ eqJ = b THEN d ELSE RZero),
                     RAdd(IF eqJ = a /\ a = b THEN RNeg(d) ELSE RZero,
                          IF eqJ = a /\ eqI = b THEN d ELSE RZero))
    IN  Tabulated([a \in 0..(n - 1) |-> [b \in 0..(n - 1) |->
            RSum([k \in DOMAIN nw.links |-> Stamp(nw.links[k], a, b)], DOMAIN nw.links)]])

\* Solver::assembleSystem: the residual R
assembleR(nw, umap, n) ==
    LET Flow(l, a) ==
            RAdd(IF umap[l.from] = a THEN RNeg(l.massFlow) ELSE RZero,
                 IF umap[l.to] = a THEN l.massFlow ELSE RZero)
    IN  Tabulated([a \in 0..(n - 1) |->
            RSum([k \in DOMAIN nw.links |-> Flow(nw.links[k], a)], DOMAIN nw.links)])

\* R.lpNorm<Eigen::Infinity>()
lpNormInf(v, n) ==
    IF n = 0 THEN RZero
    ELSE LET a == CHOOSE i \in 0..(n - 1) : \A j \in 0..(n - 1) : RLe(RAbs(v[j]), RAbs(v[i]))
         IN  RAbs(v[a])

\* the square root of a rational that is a perfect square
ExactSqrt(x) ==
    <<CHOOSE k \in 0..x[1] : k * k = x[1], CHOOSE k \in 0..x[2] : k * k = x[2]>>

\* dP.norm()
vecNorm(v, n) ==
    IF n = 1 THEN RAbs(v[0])
    ELSE ExactSqrt(RSum([i \in 0..(n - 1) |-> RMul(v[i], v[i])], 0..(n - 1)))

\* the trust-region radii of Solver.h, in the model's pressure unit
TR_INITIAL_RADIUS == ROne
TR_MIN_RADIUS == <<1, 2>>
TR_MAX_RADIUS == R(2)

\* a Solver: its method and the parameters solve reads
MkSolver(method, maxIterations, convergenceTol, relaxFactor) ==
    [method |-> method, maxIterations |-> maxIterations,
     convergenceTol |-> convergenceTol, relaxFactor |-> relaxFactor]

\* a default-constructed SolverResult
SolverResultInit ==
    [converged |-> FALSE, iterations |-> 0, maxResidual |-> RZero,
     pressures |-> <<>>, massFlows |-> <<>>]

\* what is observed of a solve besides its result: whether the linear solve
\* failed, the pressures at the start of the last iteration, and the densities
\* every computeFlows of the solve was given
SolveTraceInit == [solveFailed |-> FALSE, iterP |-> <<>>, flowRho |-> <<>>]

\* Solver::applyUpdateSUR
applyUpdateSUR(nw, sv, dP, umap) ==
    [nw EXCEPT !.P = [i \in DOMAIN nw.type |->
        IF umap[i] >= 0 THEN RAdd(nw.P[i], RMul(sv.relaxFactor, dP[umap[i]]))
        ELSE nw.P[i]]]

\* a step that is never scaled
trScaleNone(dP, n, trustRadius) == ROne

\* scale of Solver::applyUpdateTR
trScale(dP, n, trustRadius) ==
    LET stepNorm == vecNorm(dP, n)
    IN  IF RLt(trustRadius, stepNorm) THEN RDiv(trustRadius, stepNorm) ELSE ROne

RMax(x, y) == IF RLt(x, y) THEN y ELSE x
RMin(x, y) == IF RLt(y, x) THEN y ELSE x

\* Solver::applyUpdateTR: the network and the trust radius it leaves
applyUpdateTR(nw, dP, umap, n, trustRadius) ==
    LET scale == trScale(dP, n, trustRadius)
    IN  [nw |-> [nw EXCEPT !.P = [i \in DOMAIN nw.type |->
                    IF umap[i] >= 0 THEN RAdd(nw.P[i], RMul(scale, dP[umap[i]]))
                    ELSE nw.P[i]]],
         trustRadius |-> IF RLt(scale, ROne)
                         THEN RMax(RMul(trustRadius, <<1, 2>>), TR_MIN_RADIUS)
                         ELSE RMin(RMul(trustRadius, R(2)), TR_MAX_RADIUS)]

\* a convergence test that every residual passes
ConvergedAlways(maxResidual, convergenceTol) == TRUE

\* the convergence test of solve
Converged(maxResidual, convergenceTol) == RLt(maxResidual, convergenceTol)

\* solveOk of solve, for the direct factorisation of small systems: it
\* succeeds exactly on a non-singular Jacobian
solveOk(J, n) == Det(J, n) # RZero

\* a failed linear solve reported as convergence
FailureAsConverged(res) == [res EXCEPT !.converged = TRUE]

\* the result solve is left with when the linear solve fails
FailureResult(res) == res

\* The Newton loop of Solver::solve from iteration it on, in its parts:
\* solveLoop is the loop test and the flow computation, solveFlows and
\* solveAssemble the assembly and the residual norm, solveTest the
\* convergence test and the linear solve, solveUpdate the pressure update
\* and the next iteration.
RECURSIVE solveLoop(_, _, _, _, _, _, _, _)
solveUpdate(nw2, dP, sv, umap, n, it, trustRadius, res1, tr1) ==
    IF sv.method = "SubRelaxation"
    THEN solveLoop(applyUpdateSUR(nw2, sv, dP, umap), sv, umap, n, it + 1,
                   trustRadius, res1, tr1)
    ELSE solveLoop(applyUpdateTR(nw2, dP, umap, n, trustRadius).nw, sv, umap, n, it + 1,
                   applyUpdateTR(nw2, dP, umap, n, trustRadius).trustRadius, res1, tr1)

solveTest(nw2, J, Rv, sv, umap, n, it, trustRadius, res1, tr1) ==
    IF Converged(res1.maxResidual, sv.convergenceTol)
    THEN [nw |-> nw2, res |-> [res1 EXCEPT !.converged = TRUE], tr |-> tr1]
    ELSE IF ~solveOk(J, n)
    THEN [nw |-> nw2, res |-> FailureResult(res1), tr |-> [tr1 EXCEPT !.solveFailed = TRUE]]
    ELSE solveUpdate(nw2, LinearSolve(J, [a \in 0..(n - 1) |-> RNeg(Rv[a])], n),
                     sv, umap, n, it, trustRadius, res1, tr1)

solveAssemble(nw2, Rv, iterP, sv, umap, n, it, trustRadius, res, tr) ==
    solveTest(nw2, assembleJ(nw2, umap, n), Rv, sv, umap, n, it, trustRadius,
              [res EXCEPT !.maxResidual = lpNormInf(Rv, n), !.iterations = it + 1],
              [tr EXCEPT !.iterP = iterP, !.flowRho = Append(@, nw2.rho)])

solveFlows(nw2, iterP, sv, umap, n, it, trustRadius, res, tr) ==
    solveAssemble(nw2, assembleR(nw2, umap, n), iterP, sv, umap, n, it, trustRadius, res, tr)

solveLoop(nw, sv, umap, n, it, trustRadius, res, tr) ==
    IF it >= sv.maxIterations THEN [nw |-> nw, res |-> res, tr |-> tr]
    ELSE solveFlows(computeFlows(updateAllDensities(nw)), nw.P, sv, umap, n, it,
                    trustRadius, res, tr)

\* "Collect final results" of solve
collectResults(nw, res) ==
    [res EXCEPT !.pressures = nw.P,
                !.massFlows = [k \in DOMAIN nw.links |-> nw.links[k].massFlow]]

\* the return value of solve: the network it leaves, its result with the
\* final pressures and flows, and the trace of the solve
solveReturn(out) ==
    [nw |-> out.nw, res |-> collectResults(out.nw, out.res), tr |-> out.tr]

\* Solver::solve
solve(nw, sv) ==
    IF getUnknownCount(nw) = 0
    THEN [nw |-> nw, res |-> [SolverResultInit EXCEPT !.converged = TRUE],
          tr |-> SolveTraceInit]
    ELSE solveReturn(solveLoop(updateAllDensities(nw), sv,
                         Tabulated([i \in DOMAIN nw.type |-> solveUnknownMap(nw, i)]),
                         getUnknownCount(nw), 0, TR_INITIAL_RADIUS,
                         SolverResultInit, SolveTraceInit))

-----------------------------------------------------------------------------
(* The airflow part of a time step of TransientSimulation::run: the solve  *)
(* of step 2 and the density-coupling loop of step 3b, on the network and  *)
(* solver above.                                                           *)

M_AIR == <<29, 1000>>
DENSITY_TOL == <<1, 10000>>
RHO_FALLBACK == <<6, 5>>

\* sumCorrection of updateDensitiesFromConcentrations for node i
sumCorrection(nw, conc, sp, i) ==
    LET rho_base == IF RLe(nw.rho[i], RZero) THEN RHO_FALLBACK ELSE nw.rho[i]
        Term(k) == IF sp[k].isTrace \/ k \notin DOMAIN conc[i]
                      \/ RLe(sp[k].molarMass, RZero)
                   THEN RZero
                   ELSE RMul(RDiv(conc[i][k], rho_base),
                             RSub(RDiv(M_AIR, sp[k].molarMass), ROne))
    IN  RSum([k \in DOMAIN sp |-> Term(k)], DOMAIN sp)

\* TransientSimulation::updateDensitiesFromConcentrations
updateDensitiesFromConcentrations(nw, conc, sp) ==
    [nw EXCEPT !.rho = [i \in DOMAIN nw.type |->
        IF nw.type[i] = "Ambient" \/ i \notin DOMAIN conc THEN nw.rho[i]
        ELSE RDiv(RAdd(P_ATM, nw.P[i]),
                  RMul(RMul(R_AIR, RAdd(ROne, sumCorrection(nw, conc, sp, i))),
                       nw.T[i]))]]

\* maxRelChange of the coupling loop: prev are the densities saved before
\* updateDensitiesFromConcentrations, nw the network after it
maxRelChange(prev, nw) ==
    LET S == {i \in DOMAIN nw.type : nw.type[i] # "Ambient" /\ RLt(RZero, prev[i])}
        rel(i) == RDiv(RAbs(RSub(nw.rho[i], prev[i])), prev[i])
    IN  IF S = {} THEN RZero
        ELSE rel(CHOOSE i \in S : \A j \in S : RLe(rel(j), rel(i)))

\* TransientSimulation::hasNonTraceSpecies on the species list sp
anyNonTrace(sp) == \E k \in DOMAIN sp : ~sp[k].isTrace

\* The networks explored: a zone fed by a fan and relieved by an orifice
\* (non-singular and singular Jacobian), a zone behind one orifice, at rest
\* and pressurised, a network of Ambient nodes only, two zones in series
\* (one pressurised; fan-fed with a singular Jacobian), and a warm zone with
\* openings at two heights and an unconnected link slot.
LinearOrifice(Cc) == PowerLawOrifice(Cc, ROne)

AirNetworks ==
    { MkNetwork(<<"Ambient", "Normal">>, <<RZero, RZero>>, <<ROne, ROne>>, <<RZero, RZero>>,
          <<MkLink(0, 1, RZero, FanLinear(R(1), R(2))),
            MkLink(1, 0, RZero, LinearOrifice(R(1)))>>),
      MkNetwork(<<"Ambient", "Normal">>, <<RZero, RZero>>, <<ROne, ROne>>, <<RZero, RZero>>,
          <<MkLink(0, 1, RZero, FanLinear(R(1), R(1))),
            MkLink(1, 0, RZero, LinearOrifice(R(1)))>>),
      MkNetwork(<<"Normal", "Ambient">>, <<RZero, RZero>>, <<ROne, ROne>>, <<RZero, RZero>>,
          <<MkLink(0, 1, RZero, LinearOrifice(R(1)))>>),
      MkNetwork(<<"Normal", "Ambient">>, <<ROne, RZero>>, <<ROne, ROne>>, <<RZero, RZero>>,
          <<MkLink(0, 1, RZero, LinearOrifice(R(1)))>>),
      MkNetwork(<<"Ambient", "Ambient">>, <<RZero, ROne>>, <<ROne, ROne>>, <<RZero, RZero>>,
          <<MkLink(0, 1, RZero, LinearOrifice(R(1)))>>),
      MkNetwork(<<"Normal", "Ambient", "Normal">>, <<<<1, 4>>, RZero, RZero>>,
          <<ROne, ROne, ROne>>, <<RZero, RZero, RZero>>,
          <<MkLink(0, 2, RZero, LinearOrifice(R(1))),
            MkLink(2, 1, RZero, LinearOrifice(R(1)))>>),
      MkNetwork(<<"Normal", "Ambient", "Normal">>, <<RZero, RZero, RZero>>,
          <<ROne, ROne, ROne>>, <<RZero, RZero, RZero>>,
          <<MkLink(1, 0, RZero, FanLinear(R(1), R(2))),
            MkLink(0, 2, RZero, LinearOrifice(R(1))),
            MkLink(2, 1, RZero, LinearOrifice(R(1)))>>),
      MkNetwork(<<"Ambient", "Normal">>, <<RZero, RZero>>, <<ROne, R(2)>>, <<RZero, RZero>>,
          <<MkLink(0, 1, RZero, LinearOrifice(R(1))),
            MkLink(1, 0, ROne, LinearOrifice(R(1))),
            MkLink(0, 1, RZero, <<>>)>>) }

\* The solvers explored: both methods, iteration limits up to MaxNewton, a
\* loose and a tight tolerance.
AirSolvers ==
    { MkSolver(m, k, tol, <<3, 4>>) :
        m \in {"SubRelaxation", "TrustRegion"}, k \in 1..MaxNewton,
        tol \in {<<1, 2>>, <<1, 10>>} }

\* The species lists explored: none, a trace species, a heavy and a light
\* non-trace species, and a non-trace species without molar mass.
AirSpecies ==
    { <<>>,
      <<[isTrace |-> TRUE, molarMass |-> <<29, 500>>]>>,
      <<[isTrace |-> FALSE, molarMass |-> <<29, 500>>]>>,
      <<[isTrace |-> FALSE, molarMass |-> <<29, 2000>>]>>,
      <<[isTrace |-> FALSE, molarMass |-> RZero]>> }

\* The concentrations a contaminant step may leave: per node one value per species
AirConcs(nw, sp) ==
    { [i \in DOMAIN nw.type |-> [k \in DOMAIN sp |-> c]] : c \in {RZero, <<1, 2>>} }

\* The trust-region method is explored on one unknown, where dP.norm() is
\* rational, and the network with openings at two heights with the loose
\* tolerance, under which it converges before its iterates leave the
\* integer range.
AirSetupOk(nw, sv) ==
    /\ sv.method = "TrustRegion" => getUnknownCount(nw) <= 1
    /\ (\E k \in DOMAIN nw.links : nw.links[k].elev # RZero) => sv.convergenceTol = <<1, 2>>

AirInit ==
    /\ anet \in AirNetworks
    /\ asolver \in {sv \in AirSolvers : AirSetupOk(anet, sv)}
    /\ aspecies \in AirSpecies
    /\ aconc = [i \in DOMAIN anet.type |-> [k \in DOMAIN aspecies |-> RZero]]
    /\ apc = "solve"
    /\ aiter = 0
    /\ airResult = SolverResultInit
    /\ alast = <<>>
    /\ arel = <<>>
    /\ asteps = 0

\* what is recorded of a call of solve on network nwIn
SolveCall(nwIn, out, inCoupling) ==
    [res |-> out.res, tr |-> out.tr, nwIn |-> nwIn, nwOut |-> out.nw,
     inCoupling |-> inCoupling]

\* Step 2 (and the initial solve): airResult = airflowSolver.solve(network);
\* whatever the result, the step goes on.
AirSolve ==
    /\ apc = "solve"
    /\ \E out \in {solve(anet, asolver)} :
           /\ anet' = out.nw
           /\ airResult' = out.res
           /\ alast' = SolveCall(anet, out, FALSE)
    /\ apc' = "contaminant"
    /\ arel' = <<>>
    /\ UNCHANGED <<asolver, aspecies, aconc, aiter, asteps>>

\* Step 3: contSolver.step leaves new concentrations; entry of the coupling loop.
AirContaminantStep ==
    /\ apc = "contaminant"
    /\ aconc' \in AirConcs(anet, aspecies)
    /\ aiter' = 0
    /\ apc' = IF anyNonTrace(aspecies) THEN "coupling" ELSE "done"
    /\ UNCHANGED <<anet, asolver, aspecies, airResult, alast, arel, asteps>>

\* Step 3b, one pass of for (iter < MAX_COUPLING_ITER): save the densities,
\* updateDensitiesFromConcentrations, maxRelChange, re-solve, break on a
\* change below DENSITY_TOL.
AirCouplingIter ==
    /\ apc = "coupling"
    /\ IF aiter < MAX_COUPLING_ITER
       THEN \E nwc \in {updateDensitiesFromConcentrations(anet, aconc, aspecies)} :
            \E change \in {maxRelChange(anet.rho, nwc)} :
            \E out \in {solve(nwc, asolver)} :
                /\ anet' = out.nw
                /\ airResult' = IF out.res.converged THEN out.res ELSE airResult
                /\ alast' = SolveCall(nwc, out, TRUE)
                /\ arel' = Append(arel, change)
                /\ aiter' = aiter + 1
                /\ apc' = IF RLt(change, DENSITY_TOL) THEN "done" ELSE "coupling"
       ELSE /\ apc' = "done"
            /\ UNCHANGED <<anet, airResult, alast, arel, aiter>>
    /\ UNCHANGED <<asolver, aspecies, aconc, asteps>>

\* the next time step
AirNextStep ==
    /\ apc = "done"
    /\ asteps + 1 < MaxAirSteps
    /\ asteps' = asteps + 1
    /\ apc' = "solve"
    /\ UNCHANGED <<anet, asolver, aspecies, aconc, aiter, airResult, alast, arel>>

AirNext == AirSolve \/ AirContaminantStep \/ AirCouplingIter \/ AirNextStep

-----------------------------------------------------------------------------
(* Controller, Sensor, Actuator and the control step of                    *)
(* TransientSimulation::run.                                               *)
(*                                                                         *)
(* The controller computes in double: every sum, difference and product is *)
(* rounded to the nearest representable value, ties to even.  The model    *)
(* keeps this with a binary floating-point format of SIGNIFICAND_BITS      *)
(* significant bits instead of 53.                                         *)

SIGNIFICAND_BITS == 3

\* 2^k as a rational
Pow2(k) == IF k >= 0 THEN <<2 ^ k, 1>> ELSE <<1, 2 ^ (-k)>>

\* the exponent k with 2^(bits-1) <= |x| / 2^k < 2^bits, for x # 0
FlExponent(x) ==
    CHOOSE k \in -9..4 :
        /\ RLe(Pow2(SIGNIFICAND_BITS - 1 + k), RAbs(x))
        /\ RLt(RAbs(x), Pow2(SIGNIFICAND_BITS + k))

\* the integer nearest to the rational q >= 0, ties to even
RoundHalfEven(q) ==
    IF RLt(RSub(q, R(q[1] \div q[2])), <<1, 2>>) THEN q[1] \div q[2]
    ELSE IF RLt(<<1, 2>>, RSub(q, R(q[1] \div q[2]))) THEN (q[1] \div q[2]) + 1
    ELSE IF (q[1] \div q[2]) % 2 = 0 THEN q[1] \div q[2] ELSE (q[1] \div q[2]) + 1

\* x # 0 rounded at exponent k
FlAt(x, k) ==
    RMul(R((IF x[1] < 0 THEN -1 ELSE 1) * RoundHalfEven(RDiv(RAbs(x), Pow2(k)))), Pow2(k))

\* the representable value nearest to x
Fl(x) == IF x[1] = 0 THEN RZero ELSE FlAt(x, FlExponent(x))

\* +, - and * on double
FAdd(x, y) == Fl(RAdd(x, y))
FSub(x, y) == Fl(RSub(x, y))
FMul(x, y) == Fl(RMul(x, y))

\* a Controller after Controller(id, name, sensorId, actuatorId, setpoint,
\* Kp, Ki, deadband) and assignment of its public outputMin and outputMax
MkController(id, sensorId, actuatorId, setpoint, Kp, Ki, deadband, outputMin, outputMax) ==
    [id |-> id, sensorId |-> sensorId, actuatorId |-> actuatorId,
     setpoint |-> setpoint, Kp |-> Kp, Ki |-> Ki, deadband |-> deadband,
     outputMin |-> outputMin, outputMax |-> outputMax,
     output |-> RZero, prevError |-> RZero, integral |-> RZero]

\* std::clamp(v, lo, hi)
stdClamp(v, lo, hi) == IF RLt(v, lo) THEN lo ELSE IF RLt(hi, v) THEN hi ELSE v

\* error of Controller::update after the deadband
deadbandError(c, sensorValue) ==
    IF RLt(RAbs(FSub(c.setpoint, sensorValue)), c.deadband) THEN RZero
    ELSE FSub(c.setpoint, sensorValue)

\* rawOutput of Controller::update, from the integral that holds this step
rawOutput(c, error, integ) == FAdd(FMul(c.Kp, error), FMul(c.Ki, integ))

\* an update that keeps this step's integration also when saturated
KeepIntegral(integ, x, saturated) == integ

\* Anti-windup: if (output != rawOutput) integral -= error * dt
AntiWindup(integ, x, saturated) == IF saturated THEN FSub(integ, x) ELSE integ

\* an output that is the raw output
NoClamp(raw, lo, hi) == raw

\* output = std::clamp(rawOutput, outputMin, outputMax)
ClampOutput(raw, lo, hi) == stdClamp(raw, lo, hi)

\* Controller::update from rawOutput on: x is error * dt, integ the integral
\* after integral += error * dt
updateOutput(c, error, x, integ, raw) ==
    [c EXCEPT !.output = ClampOutput(raw, c.outputMin, c.outputMax),
              !.integral = AntiWindup(integ, x, ClampOutput(raw, c.outputMin, c.outputMax) # raw),
              !.prevError = error]

\* Controller::update from integral += error * dt on
updateIntegral(c, error, x, integ) ==
    updateOutput(c, error, x, integ, rawOutput(c, error, integ))

\* Controller::update from the error on
updateError(c, error, x) == updateIntegral(c, error, x, FAdd(c.integral, x))

\* Controller::update(sensorValue, dt): the controller it leaves
ControllerUpdate(c, sensorValue, dt) ==
    updateError(c, deadbandError(c, sensorValue), FMul(deadbandError(c, sensorValue), dt))

MaxCtlSteps == 2

\* Sensor(id, name, type, targetId, speciesIdx)
MkSensor(id, type, targetId, speciesIdx) ==
    [id |-> id, type |-> type, targetId |-> targetId, speciesIdx |-> speciesIdx,
     lastReading |-> RZero]

\* Actuator(id, name, type, linkIdx)
MkActuator(id, type, linkIdx) ==
    [id |-> id, type |-> type, linkIdx |-> linkIdx, currentValue |-> RZero]

\* A flow element an actuator may act on: its typeName, the quantity an
\* actuator sets (the fraction of a Damper), and the identity of the object.
MkElement(kind, setting, obj) == [kind |-> kind, setting |-> setting, obj |-> obj]

\* what updateSensors reads for sensor s in state st, s.lastReading if the
\* target is out of range
sensorReading(st, s) ==
    CASE s.type = "Concentration" ->
             IF s.targetId \in DOMAIN st.conc /\ s.speciesIdx \in DOMAIN st.conc[s.targetId]
             THEN st.conc[s.targetId][s.speciesIdx] ELSE s.lastReading
      [] s.type = "Pressure" ->
             IF s.targetId \in DOMAIN st.P THEN st.P[s.targetId] ELSE s.lastReading
      [] s.type = "Temperature" ->
             IF s.targetId \in DOMAIN st.T THEN st.T[s.targetId] ELSE s.lastReading
      [] s.type = "MassFlow" ->
             IF s.targetId \in DOMAIN st.flow THEN st.flow[s.targetId] ELSE s.lastReading

\* TransientSimulation::updateSensors
updateSensors(st, ss) ==
    [q \in DOMAIN ss |-> [ss[q] EXCEPT !.lastReading = sensorReading(st, ss[q])]]

\* the sensors of controller c: those with sensor.id == ctrl.sensorId
sensorsOf(c, ss) == {q \in DOMAIN ss : ss[q].id = c.sensorId}

\* the first of the indices S
First(S) == CHOOSE q \in S : \A q2 \in S : q <= q2

\* TransientSimulation::updateControllers
updateControllers(cs, ss, dt) ==
    [q \in DOMAIN cs |->
        IF sensorsOf(cs[q], ss) = {} THEN cs[q]
        ELSE ControllerUpdate(cs[q], ss[First(sensorsOf(cs[q], ss))].lastReading, dt)]

\* the output of the last controller of the list that names actuator a
ctrlOutputLast(cs, a) ==
    IF {q \in DOMAIN cs : cs[q].actuatorId = a.id} = {} THEN RZero
    ELSE cs[CHOOSE q \in DOMAIN cs :
                /\ cs[q].actuatorId = a.id
                /\ \A m \in DOMAIN cs : cs[m].actuatorId = a.id => m <= q].output

\* ctrlOutput of applyActuators for actuator a
ctrlOutput(cs, a) ==
    IF {q \in DOMAIN cs : cs[q].actuatorId = a.id} = {} THEN RZero
    ELSE cs[First({q \in DOMAIN cs : cs[q].actuatorId = a.id})].output

\* the element applyActuators leaves in the link of actuator a, given the
\* element el the link holds: a Damper is cloned (object fresh), its fraction
\* set, and the clone put in the link
actuatedElement(a, el, out, fresh) ==
    IF a.type = "DamperFraction" /\ el.kind = "Damper"
    THEN MkElement("Damper", out, fresh)
    ELSE el

\* TransientSimulation::applyActuators from actuator q on: the elements of
\* the links, objects numbered from fresh on
RECURSIVE applyFrom(_, _, _, _, _)
applyFrom(cs, as, elems, q, fresh) ==
    IF q > Len(as) THEN elems
    ELSE IF as[q].linkIdx \in DOMAIN elems /\ elems[as[q].linkIdx] # <<>>
    THEN applyFrom(cs, as,
             [elems EXCEPT ![as[q].linkIdx] =
                 actuatedElement(as[q], elems[as[q].linkIdx], ctrlOutput(cs, as[q]), fresh)],
             q + 1, fresh + 1)
    ELSE applyFrom(cs, as, elems, q + 1, fresh)

\* act.currentValue = ctrlOutput, for every actuator
setCurrentValues(cs, as) ==
    [q \in DOMAIN as |-> [as[q] EXCEPT !.currentValue = ctrlOutput(cs, as[q])]]

\* The values the simulated quantities take, all representable
SensorValues == {RZero, <<-1, 4>>, <<3, 4>>, ROne, R(2)}
CtlDts == {ROne, <<1, 2>>}

\* the state the sensors read: one zone with one species, links with a
\* damper, a fan, a filter and no element
PlantWith(v) ==
    [P |-> Vec(<<v>>), T |-> Vec(<<ROne>>), conc |-> Vec(<<Vec(<<v>>)>>),
     flow |-> Vec(<<v, RZero, RZero, RZero>>)]

PlantElements ==
    Vec(<<MkElement("Damper", ROne, 1), MkElement("Fan", ROne, 2),
          MkElement("Filter", RZero, 3), <<>>>>)

\* The control systems explored: one PI controller with each combination of
\* gains, deadband and output range on a pressure sensor and a damper; one
\* controller on each sensor type and target; one on each actuator type and
\* link, with and without a controller of its own; none; two controllers
\* of which the second has no sensor; two controllers on one actuator; and
\* a fan actuator without controller on the link of the damper.
CtlControllers ==
    { MkController(1, 1, 1, ROne, Kp, Ki, db, lo, hi) :
        Kp \in {RZero, ROne}, Ki \in {RZero, ROne}, db \in {RZero, <<1, 2>>},
        lo \in {RZero, R(-1)}, hi \in {ROne} }

CtlSetups ==
    { [ctrl |-> <<c>>, sens |-> <<MkSensor(1, "Pressure", 0, 0)>>,
       acts |-> <<MkActuator(1, "DamperFraction", 0)>>] : c \in CtlControllers }
    \cup
    { [ctrl |-> <<MkController(1, 1, 1, ROne, ROne, RZero, RZero, RZero, ROne)>>,
       sens |-> <<MkSensor(1, ty, tg[1], tg[2])>>,
       acts |-> <<MkActuator(1, "DamperFraction", 0)>>] :
         ty \in {"Concentration", "Pressure", "Temperature", "MassFlow"},
         tg \in {<<0, 0>>, <<7, 0>>, <<0, 3>>} }
    \cup
    { [ctrl |-> <<MkController(1, 1, a[1], ROne, ROne, RZero, RZero, RZero, ROne)>>,
       sens |-> <<MkSensor(1, "Pressure", 0, 0)>>,
       acts |-> <<MkActuator(1, a[2], lk), MkActuator(2, "DamperFraction", 0)>>] :
         a \in {<<1, "DamperFraction">>, <<1, "FanSpeed">>, <<1, "FilterBypass">>,
                <<2, "DamperFraction">>},
         lk \in {0, 1, 2, 3, 9} }
    \cup
    { [ctrl |-> <<>>, sens |-> <<MkSensor(1, "Pressure", 0, 0)>>,
       acts |-> <<MkActuator(1, "DamperFraction", 0)>>],
      [ctrl |-> <<MkController(1, 1, 1, ROne, RZero, ROne, RZero, RZero, ROne),
                  MkController(2, 5, 2, ROne, ROne, ROne, RZero, RZero, ROne)>>,
       sens |-> <<MkSensor(1, "Pressure", 0, 0)>>,
       acts |-> <<MkActuator(1, "DamperFraction", 0), MkActuator(2, "FanSpeed", 1)>>],
      [ctrl |-> <<MkController(1, 1, 1, ROne, RZero, ROne, RZero, RZero, ROne),
                  MkController(2, 1, 1, ROne, ROne, RZero, RZero, RZero, ROne)>>,
       sens |-> <<MkSensor(1, "Pressure", 0, 0)>>,
       acts |-> <<MkActuator(1, "DamperFraction", 0)>>],
      [ctrl |-> <<MkController(1, 1, 1, ROne, ROne, RZero, RZero, RZero, ROne)>>,
       sens |-> <<MkSensor(1, "Pressure", 0, 0)>>,
       acts |-> <<MkActuator(3, "FanSpeed", 0), MkActuator(1, "DamperFraction", 9)>>] }

CtlInit ==
    /\ \E su \in CtlSetups : ctrl = su.ctrl /\ sens = su.sens /\ acts = su.acts
    /\ plant \in {PlantWith(v) : v \in SensorValues}
    /\ kelems = PlantElements
    /\ kdt \in CtlDts
    /\ kpc = "sensors"
    /\ klog = <<>>
    /\ klast = <<>>
    /\ kfresh = 4
    /\ ksteps = 0

\* if (!controllers_.empty()) is false: no control step
CtlNone ==
    /\ kpc = "sensors"
    /\ ctrl = <<>>
    /\ kpc' = "airflow"
    /\ UNCHANGED <<ctrl, sens, acts, plant, kelems, kdt, klog, klast, kfresh, ksteps>>

\* updateSensors(network, contSolver)
CtlSensors ==
    /\ kpc = "sensors"
    /\ ctrl # <<>>
    /\ sens' = updateSensors(plant, sens)
    /\ klog' = Append(klog, "sensors")
    /\ kpc' = "controllers"
    /\ UNCHANGED <<ctrl, acts, plant, kelems, kdt, klast, kfresh, ksteps>>

\* updateControllers(currentDt); klast keeps the controllers and sensors
\* the updates started from
CtlControllersStep ==
    /\ kpc = "controllers"
    /\ ctrl' = updateControllers(ctrl, sens, kdt)
    /\ klast' = [before |-> ctrl, sens |-> sens, dt |-> kdt]
    /\ klog' = Append(klog, "controllers")
    /\ kpc' = "actuators"
    /\ UNCHANGED <<sens, acts, plant, kelems, kdt, kfresh, ksteps>>

\* applyActuators(network)
CtlActuators ==
    /\ kpc = "actuators"
    /\ acts' = setCurrentValues(ctrl, acts)
    /\ kelems' = applyFrom(ctrl, acts, kelems, 1, kfresh)
    /\ kfresh' = kfresh + Len(acts)
    /\ klog' = Append(klog, "actuators")
    /\ kpc' = "airflow"
    /\ UNCHANGED <<ctrl, sens, plant, kdt, klast, ksteps>>

\* the airflow solve and the rest of the step leave a new state; the next
\* step starts with its own currentDt
CtlAirflow ==
    /\ kpc = "airflow"
    /\ ksteps + 1 < MaxCtlSteps
    /\ plant' \in {PlantWith(v) : v \in SensorValues}
    /\ kdt' \in CtlDts
    /\ ksteps' = ksteps + 1
    /\ klog' = <<>>
    /\ kpc' = "sensors"
    /\ UNCHANGED <<ctrl, sens, acts, kelems, klast, kfresh>>

CtlNext == CtlNone \/ CtlSensors \/ CtlControllersStep \/ CtlActuators \/ CtlAirflow

-----------------------------------------------------------------------------
(* Schedule::addPoint and Schedule::getValue on their own.  Times are in   *)
(* units of 2.5e-16 s, so that the 1e-15 s of getValue is 4 units.         *)

MaxPoints == 3

\* the 1e-15 of `if (dt < 1e-15)`
SCHED_DT_MIN == 4

\* SchedulePoint(tq, v)
SchedulePoint(time, value) == [time |-> R(time), value |-> R(value)]

\* the bijections of 1..n
Bijections(n) == {f \in [1..n -> 1..n] : \A i, j \in 1..n : i # j => f[i] # f[j]}

\* the points of pts in non-decreasing order of time
SortedByTime(pts) == \A i \in 1..(Len(pts) - 1) : RLe(pts[i].time, pts[i + 1].time)

\* what std::sort with the comparison a.time < b.time may leave of pts:
\* the order of points with equal times is not specified
stdSort(pts) ==
    {q \in {[i \in 1..Len(pts) |-> pts[f[i]]] : f \in Bijections(Len(pts))} :
        SortedByTime(q)}

\* points_ after push_back without the sort
addPointUnsorted(pts, p) == {Append(pts, p)}

\* Schedule::addPoint: the values points_ may have afterwards
addPoint(pts, p) == stdSort(Append(pts, p))

\* the intervals [points_[i], points_[i + 1]] that hold t
bracketing(pts, tq) ==
    {i \in 1..(Len(pts) - 1) : RLe(pts[i].time, tq) /\ RLe(tq, pts[i + 1].time)}

\* the return of the loop body for the interval from p to q, of length dt
interpolate(p, q, tq, dt) ==
    IF RLt(dt, R(SCHED_DT_MIN)) THEN p.value
    ELSE RAdd(RMul(p.value, RSub(ROne, RDiv(RSub(tq, p.time), dt))),
              RMul(q.value, RDiv(RSub(tq, p.time), dt)))

\* the loop of getValue, from its first bracketing interval
getValueLoop(pts, tq, S) ==
    IF S = {} THEN pts[Len(pts)].value
    ELSE interpolate(pts[First(S)], pts[First(S) + 1], tq,
                     RSub(pts[First(S) + 1].time, pts[First(S)].time))

\* Schedule::getValue(t)
getValue(pts, tq) ==
    IF pts = <<>> THEN ROne
    ELSE IF Len(pts) = 1 THEN pts[1].value
    ELSE IF RLe(tq, pts[1].time) THEN pts[1].value
    ELSE IF RLe(pts[Len(pts)].time, tq) THEN pts[Len(pts)].value
    ELSE getValueLoop(pts, tq, bracketing(pts, tq))

\* The points added and the times asked for: intervals shorter and longer
\* than SCHED_DT_MIN, equal times, times before, at, between and after points
PointTimes == {0, 1, 4, 8}
PointValues == {1, 3}
QueryTimes == {-1, 0, 1, 2, 4, 6, 8, 9}

\* Schedule(id, name), with the mode a reader sets by setInterpolationMode
SchedInit ==
    /\ schedPts = <<>>
    /\ schedMode \in {"Linear", "StepHold"}
    /\ schedRes = <<>>
    /\ schedMoved = FALSE

\* addPoint(time, value); schedMoved records that a point was added that
\* is earlier than one added before it
SchedAddPoint ==
    /\ Len(schedPts) < MaxPoints
    /\ \E time \in PointTimes, value \in PointValues :
        /\ schedPts' \in addPoint(schedPts, SchedulePoint(time, value))
        /\ schedMoved' = (schedMoved \/ \E i \in DOMAIN schedPts : RLt(R(time), schedPts[i].time))
    /\ schedRes' = <<>>
    /\ UNCHANGED schedMode

\* getValue(t)
SchedGetValue ==
    /\ \E tq \in QueryTimes : schedRes' = [time |-> R(tq), value |-> getValue(schedPts, R(tq))]
    /\ UNCHANGED <<schedPts, schedMode, schedMoved>>

SchedNext == SchedAddPoint \/ SchedGetValue

-----------------------------------------------------------------------------
(* WpcReader::readPressureString and WpcReader::readConcentrationString,   *)
(* one iteration of the line loop per step.                                *)

MaxLines == 3

\* prevTime = -1e30: earlier than every time of the inputs explored
PREV_TIME_INIT == -1000000

\* The lines of an input: blank, comment, a line whose first field is not a
\* number, and records "time v1 v2 ..." with zero, one or two values
WpcLines ==
    {[kind |-> "blank"], [kind |-> "comment"], [kind |-> "bad"]}
    \cup {[kind |-> "record", time |-> tm, vals |-> vs] :
            tm \in {0, 1, 2}, vs \in {<<>>, <<5>>, <<5, 7>>}}

WpcInputs == UNION {[1..n -> WpcLines] : n \in 0..MaxLines}

\* The readers explored: readPressureString, and readConcentrationString
\* with its numOpenings and numSpecies
WpcReaders ==
    {[name |-> "pressure", numOpenings |-> 0, numSpecies |-> 0],
     [name |-> "concentration", numOpenings |-> 1, numSpecies |-> 2],
     [name |-> "concentration", numOpenings |-> 2, numSpecies |-> 1],
     [name |-> "concentration", numOpenings |-> 1, numSpecies |-> 1]}

\* rec.concentrations[o][s] = vals[o * numSpecies + s]
concentrationsOf(vals, nOpenings, nSpecies) ==
    [o \in 0..(nOpenings - 1) |->
        [s \in 0..(nSpecies - 1) |-> vals[o * nSpecies + s + 1]]]

\* if (rec.time < prevTime) throw
timeNotMonotonic(time, prevTime) == time < prevTime

\* the exception the line raises after its time was read, "" if none
wpcLineError(kind, line, prevTime) ==
    IF timeNotMonotonic(line.time, prevTime) THEN "time not monotonic"
    ELSE IF kind.name = "pressure" /\ line.vals = <<>> THEN "no data columns"
    ELSE IF kind.name = "concentration"
            /\ Len(line.vals) < kind.numOpenings * kind.numSpecies
    THEN "expected columns"
    ELSE ""

\* the record pushed for the line
wpcRecord(kind, line) ==
    IF kind.name = "pressure" THEN [time |-> line.time, pressures |-> line.vals]
    ELSE [time |-> line.time,
          concentrations |-> concentrationsOf(line.vals, kind.numOpenings, kind.numSpecies)]

WpcInit ==
    /\ wpcIn \in WpcInputs
    /\ wpcKind \in WpcReaders
    /\ wpcPos = 0
    /\ wpcPrev = PREV_TIME_INIT
    /\ wpcRecords = <<>>
    /\ wpcStatus = "reading"
    /\ wpcErr = ""

\* a blank or comment line: continue
WpcSkipLine ==
    /\ wpcStatus = "reading"
    /\ wpcPos < Len(wpcIn)
    /\ wpcIn[wpcPos + 1].kind \in {"blank", "comment"}
    /\ wpcPos' = wpcPos + 1
    /\ UNCHANGED <<wpcIn, wpcKind, wpcPrev, wpcRecords, wpcStatus, wpcErr>>

\* a line that raises: the function is left by the exception and its
\* records are gone
WpcThrow ==
    /\ wpcStatus = "reading"
    /\ wpcPos < Len(wpcIn)
    /\ wpcIn[wpcPos + 1].kind \in {"bad", "record"}
    /\ \E err \in {IF wpcIn[wpcPos + 1].kind = "bad" THEN "parse error"
                   ELSE wpcLineError(wpcKind, wpcIn[wpcPos + 1], wpcPrev)} :
        /\ err # ""
        /\ wpcErr' = err
    /\ wpcPos' = wpcPos + 1
    /\ wpcStatus' = "thrown"
    /\ wpcRecords' = <<>>
    /\ UNCHANGED <<wpcIn, wpcKind, wpcPrev>>

\* a record line that is accepted
WpcPushRecord ==
    /\ wpcStatus = "reading"
    /\ wpcPos < Len(wpcIn)
    /\ wpcIn[wpcPos + 1].kind = "record"
    /\ wpcLineError(wpcKind, wpcIn[wpcPos + 1], wpcPrev) = ""
    /\ wpcPos' = wpcPos + 1
    /\ wpcPrev' = wpcIn[wpcPos + 1].time
    /\ wpcRecords' = Append(wpcRecords, wpcRecord(wpcKind, wpcIn[wpcPos + 1]))
    /\ UNCHANGED <<wpcIn, wpcKind, wpcStatus, wpcErr>>

\* return records
WpcReturn ==
    /\ wpcStatus = "reading"
    /\ wpcPos = Len(wpcIn)
    /\ wpcStatus' = "returned"
    /\ UNCHANGED <<wpcIn, wpcKind, wpcPos, wpcPrev, wpcRecords, wpcErr>>

WpcNext == WpcSkipLine \/ WpcThrow \/ WpcPushRecord \/ WpcReturn

-----------------------------------------------------------------------------
(* The dynamic sources of a time step: applyAHSFlows, injectOccupantSources *)
(* and the contaminant solve that uses them.                               *)

MaxDynSteps == 3

CO2_EXHALED_FRACTION == <<1, 25>>
AIR_DENSITY == <<6, 5>>

\* Source(zoneId, speciesId, genRate) of type Constant, removalRate 0,
\* scheduleId -1; origin tells a source of the model input from those of
\* the air handling systems and of the occupants
MkSource(origin, zoneId, speciesId, generationRate) ==
    [origin |-> origin, zoneId |-> zoneId, speciesId |-> speciesId,
     generationRate |-> generationRate]

\* an Occupant in zone currentZoneIdx
MkOccupant(id, currentZoneIdx, breathingRate) ==
    [id |-> id, currentZoneIdx |-> currentZoneIdx, breathingRate |-> breathingRate]

\* ContaminantSolver::addExtraSources
addExtraSources(extra, srcs) == extra \o srcs

\* the sources ContaminantSolver::step solves with: the dynamic sources
\* merged with the static ones
mergedSources(static, extra) == static \o extra

\* the dynamic sources the solver holds when step returns
releaseExtraSources(extra) == <<>>

\* the sources one air handling system adds when its supply injects at rate
\* g: only a positive rate gives a source
ahsSourcesOf(zoneId, g) ==
    IF RLt(RZero, g) THEN <<MkSource("ahs", zoneId, 0, g)>> ELSE <<>>

\* applyAHSFlows from system q on: each system adds its sources, if any
RECURSIVE applyAHSFrom(_, _, _, _)
applyAHSFrom(extra, zones, gs, q) ==
    IF q > Len(zones) THEN extra
    ELSE applyAHSFrom(
             IF zones[q] < 0 \/ ahsSourcesOf(zones[q], gs[q]) = <<>> THEN extra
             ELSE addExtraSources(extra, ahsSourcesOf(zones[q], gs[q])),
             zones, gs, q + 1)

\* a vector that keeps what it held
keptVector(held) == held

\* std::vector<Source> occSources: empty, whatever an earlier step built
newVector(held) == <<>>

\* injectOccupantSources from occupant q on, appended to dynamicSources
RECURSIVE injectFrom(_, _, _, _)
injectFrom(dynamicSources, occs, co2Idx, q) ==
    IF co2Idx < 0 \/ q > Len(occs) THEN dynamicSources
    ELSE injectFrom(
             IF occs[q].currentZoneIdx < 0 THEN dynamicSources
             ELSE Append(dynamicSources,
                      MkSource("occupant", occs[q].currentZoneIdx, co2Idx,
                          RMul(RMul(occs[q].breathingRate, AIR_DENSITY),
                               CO2_EXHALED_FRACTION))),
             occs, co2Idx, q + 1)

\* the sources of origin o among srcs
ofOrigin(srcs, o) == SelectSeq(srcs, LAMBDA s : s.origin = o)

\* The simulations explored: with and without contaminants, a CO2 species,
\* air handling systems (one with no supply zone: zoneId -1) and occupants
\* (one outside every zone)
DynSetups ==
    {[hasContaminants |-> hc, co2Idx |-> co2, ahsZones |-> az, occupants |-> oc,
      static |-> st] :
        hc \in BOOLEAN, co2 \in {-1, 0},
        az \in {<<>>, <<1>>, <<1, -1>>, <<1, 2>>},
        oc \in {<<>>, <<MkOccupant(1, 1, ROne)>>,
                <<MkOccupant(1, 1, ROne), MkOccupant(2, -1, ROne)>>,
                <<MkOccupant(1, 1, ROne), MkOccupant(2, 2, R(2))>>},
        st \in {<<>>, <<MkSource("static", 1, 0, ROne)>>}}

\* the injection rates of the supply zones of a step
AhsRates == {RZero, ROne}

DynInit ==
    /\ dynSetup \in DynSetups
    /\ dynExtra = <<>>
    /\ dynOccVec = <<>>
    /\ dynUsed = <<>>
    /\ dynBuilt = <<>>
    /\ dynPrev = <<>>
    /\ dynPc = "ahs"
    /\ dynSteps = 0

\* no contaminants: the step has no contaminant solve
DynNoContaminants ==
    /\ dynPc = "ahs"
    /\ ~dynSetup.hasContaminants
    /\ dynPc' = "next"
    /\ UNCHANGED <<dynSetup, dynExtra, dynOccVec, dynUsed, dynBuilt, dynPrev, dynSteps>>

\* Step 2b: if (!ahSystems_.empty()) applyAHSFlows; dynBuilt records what
\* the step builds
DynApplyAHS ==
    /\ dynPc = "ahs"
    /\ dynSetup.hasContaminants
    /\ \E gs \in [1..Len(dynSetup.ahsZones) -> AhsRates] :
        \E out \in {applyAHSFrom(dynExtra, dynSetup.ahsZones, gs, 1)} :
            /\ dynExtra' = out
            /\ dynBuilt' = applyAHSFrom(<<>>, dynSetup.ahsZones, gs, 1)
    /\ dynPc' = "occupants"
    /\ UNCHANGED <<dynSetup, dynOccVec, dynUsed, dynPrev, dynSteps>>

\* Step 2c: if (!occupants_.empty()) inject the occupants' sources
DynInjectOccupants ==
    /\ dynPc = "occupants"
    /\ \E occSources \in {IF dynSetup.occupants = <<>> THEN <<>>
                          ELSE injectFrom(newVector(dynOccVec), dynSetup.occupants,
                                          dynSetup.co2Idx, 1)} :
        /\ dynOccVec' = occSources
        /\ dynExtra' = IF occSources = <<>> THEN dynExtra
                       ELSE addExtraSources(dynExtra, occSources)
        /\ dynBuilt' = dynBuilt \o injectFrom(<<>>, dynSetup.occupants, dynSetup.co2Idx, 1)
    /\ dynPc' = "solve"
    /\ UNCHANGED <<dynSetup, dynUsed, dynPrev, dynSteps>>

\* contSolver.step(network, t, currentDt); dynPrev keeps the sources of the
\* solve before
DynSolve ==
    /\ dynPc = "solve"
    /\ dynUsed' = mergedSources(dynSetup.static, dynExtra)
    /\ dynPrev' = dynUsed
    /\ dynExtra' = releaseExtraSources(dynExtra)
    /\ dynPc' = "next"
    /\ UNCHANGED <<dynSetup, dynOccVec, dynBuilt, dynSteps>>

\* the rest of the step, and the next step
DynNextStep ==
    /\ dynPc = "next"
    /\ dynSteps + 1 < MaxDynSteps
    /\ dynSteps' = dynSteps + 1
    /\ dynBuilt' = <<>>
    /\ dynPc' = "ahs"
    /\ UNCHANGED <<dynSetup, dynExtra, dynOccVec, dynUsed, dynPrev>>

DynNext ==
    DynNoContaminants \/ DynApplyAHS \/ DynInjectOccupants \/ DynSolve \/ DynNextStep

-----------------------------------------------------------------------------
(* The trust-region updates of one call of Solver::solve: the radius set   *)
(* before the loop, then one applyUpdateTR per iteration, for whatever     *)
(* Newton step the linear solve returns.                                   *)

MaxTrUpdates == 3

\* what is observed of a call of applyUpdateTR: the Newton step dP and the
\* radius it was called with, the pressures before and after, the radius
\* it leaves
trUpdate(nw, dP, umap, n, trustRadius, out) ==
    [dP |-> dP, umap |-> umap, n |-> n, radius |-> trustRadius,
     before |-> nw.P, after |-> out.nw.P, radiusAfter |-> out.trustRadius]

\* The networks explored: one and two unknowns beside an Ambient node
TrNetworks ==
    { MkNetwork(<<"Ambient", "Normal">>, <<RZero, RZero>>, <<ROne, ROne>>,
                <<RZero, RZero>>, <<>>),
      MkNetwork(<<"Normal", "Ambient", "Normal">>, <<RZero, ROne, RZero>>,
                <<ROne, ROne, ROne>>, <<RZero, RZero, RZero>>, <<>>) }

\* The Newton steps explored for n unknowns: shorter than, as long as and
\* longer than every radius, in both directions, and the zero step
TrSteps(n) ==
    IF n = 1
    THEN {Vec(<<x>>) : x \in {RZero, <<1, 4>>, <<-1, 2>>, ROne, R(2), R(-3), R(8)}}
    ELSE {Vec(v) : v \in {<<RZero, RZero>>, <<<<3, 10>>, <<2, 5>>>>, <<<<3, 5>>, <<-4, 5>>>>,
                           <<R(-3), R(4)>>, <<RZero, R(4)>>, <<R(-3), RZero>>,
                           <<<<3, 10>>, RZero>>, <<R(6), R(8)>>}}

TrInit ==
    /\ trNet \in TrNetworks
    /\ trRadius = TR_INITIAL_RADIUS
    /\ trLast = <<>>
    /\ trCount = 0

\* one iteration's update: applyUpdateTR(network, dP, unknownMap, trustRadius, ...)
TrApplyUpdate ==
    /\ trNet # <<>>
    /\ trCount < MaxTrUpdates
    /\ \E n \in {getUnknownCount(trNet)} :
        \E umap \in {Tabulated([i \in DOMAIN trNet.type |-> baseUnknownMap(trNet, i)])} :
        \E dP \in TrSteps(n) :
        \E out \in {applyUpdateTR(trNet, dP, umap, n, trRadius)} :
            /\ trNet' = out.nw
            /\ trRadius' = out.trustRadius
            /\ trLast' = trUpdate(trNet, dP, umap, n, trRadius, out)
    /\ trCount' = trCount + 1

TrNext == TrApplyUpdate

-----------------------------------------------------------------------------
(* The occupant update of a time step:                                     *)
(* TransientSimulation::updateOccupantExposure.                            *)

MaxOccSteps == 3

\* static_cast<int>(x): the fraction is dropped
stdTrunc(x) == IF x[1] >= 0 THEN x[1] \div x[2] ELSE -((-x[1]) \div x[2])

\* static_cast<int>(std::round(x)): the nearest integer, halves away from zero
stdRound(x) ==
    IF x[1] >= 0 THEN (2 * x[1] + x[2]) \div (2 * x[2])
    ELSE -((2 * (-x[1]) + x[2]) \div (2 * x[2]))

\* an Occupant as constructed: no exposure records yet
NewOccupant(scheduleId, currentZoneIdx, breathingRate) ==
    [scheduleId |-> scheduleId, currentZoneIdx |-> currentZoneIdx,
     breathingRate |-> breathingRate, exposure |-> <<>>]

\* Occupant::initExposure(numSpecies)
initExposure(nSpecies) ==
    [k \in 1..nSpecies |->
        [cumulativeDose |-> RZero, peakConcentration |-> RZero, timeAtPeak |-> RZero]]

\* Occupant::updateExposure(conc, t, dt)
updateExposure(occ, conc, time, dt) ==
    [occ EXCEPT !.exposure = [k \in DOMAIN occ.exposure |->
        IF k > Len(conc) THEN occ.exposure[k]
        ELSE [cumulativeDose |->
                 RAdd(occ.exposure[k].cumulativeDose,
                      RMul(RMul(occ.breathingRate, conc[k]), dt)),
              peakConcentration |->
                 IF RLt(occ.exposure[k].peakConcentration, conc[k]) THEN conc[k]
                 ELSE occ.exposure[k].peakConcentration,
              timeAtPeak |->
                 IF RLt(occ.exposure[k].peakConcentration, conc[k]) THEN time
                 ELSE occ.exposure[k].timeAtPeak]]]

\* the exposure records after "Initialize exposure records if needed"
initIfNeeded(occ, nSpecies) ==
    IF Len(occ.exposure) # nSpecies THEN [occ EXCEPT !.exposure = initExposure(nSpecies)]
    ELSE occ

\* Zone movement via schedule: the occupant in the zone its schedule gives,
\* if that is an index of conc
moveBySchedule(occ, scheds, conc, time) ==
    IF occ.scheduleId >= 0 /\ occ.scheduleId \in DOMAIN scheds
    THEN IF /\ stdRound(getValue(scheds[occ.scheduleId], time)) >= 0
            /\ stdRound(getValue(scheds[occ.scheduleId], time)) < Len(conc)
         THEN [occ EXCEPT !.currentZoneIdx =
                   stdRound(getValue(scheds[occ.scheduleId], time))]
         ELSE occ
    ELSE occ

\* the exposure step of the loop body: conc[zoneIdx] for an occupant in a zone
exposeInZone(occ, conc, time, dt) ==
    IF occ.currentZoneIdx >= 0 /\ occ.currentZoneIdx < Len(conc)
    THEN updateExposure(occ, conc[occ.currentZoneIdx + 1], time, dt)
    ELSE occ

\* TransientSimulation::updateOccupantExposure: occupants_ after the call
updateOccupantExposure(occs, scheds, conc, nSpecies, time, dt) ==
    [q \in DOMAIN occs |->
        exposeInZone(moveBySchedule(initIfNeeded(occs[q], nSpecies),
                                    scheds, conc, time),
                     conc, time, dt)]

\* schedules_: schedule 0 walks from zone 0 towards zone 3, schedule 1 names a
\* zone that does not exist, schedule 2 starts below zone 0
OccSchedules ==
    [id \in {0, 1, 2} |->
        IF id = 0 THEN <<SchedulePoint(0, 0), SchedulePoint(16, 3)>>
        ELSE IF id = 1 THEN <<SchedulePoint(0, 5)>>
        ELSE <<SchedulePoint(0, -1), SchedulePoint(8, 1)>>]

\* The occupants explored: with and without schedule, with a schedule id
\* that is not bound, inside and outside the zones
OccupantLists ==
    { <<NewOccupant(0, 0, ROne)>>,
      <<NewOccupant(-1, 1, R(2)), NewOccupant(2, 2, ROne)>>,
      <<NewOccupant(1, 0, ROne), NewOccupant(7, -1, ROne)>>,
      <<NewOccupant(0, -1, <<1, 2>>)>> }

\* The concentrations a contaminant step may leave in three zones
OccConcs(nSpecies) ==
    { [z \in 1..3 |-> [k \in 1..nSpecies |-> RZero]],
      [z \in 1..3 |-> [k \in 1..nSpecies |-> R(z + k - 1)]],
      [z \in 1..3 |-> [k \in 1..nSpecies |-> R(4 - z)]] }

OccDts == {R(2), R(4)}

OccInit ==
    /\ occupants \in OccupantLists
    /\ occSpecies \in {1, 2}
    /\ occTime = RZero
    /\ occLast = <<>>
    /\ occSteps = 0

\* a step of run() from the contaminant solve on: the concentrations it
\* leaves, t += currentDt, updateOccupantExposure(contSolver, t, currentDt)
OccStep ==
    /\ occSpecies > 0
    /\ occSteps < MaxOccSteps
    /\ \E dt \in OccDts : \E conc \in OccConcs(occSpecies) :
        /\ occTime' = RAdd(occTime, dt)
        /\ occupants' = updateOccupantExposure(occupants, OccSchedules, conc,
                                               occSpecies, RAdd(occTime, dt), dt)
        /\ occLast' = [before |-> occupants, conc |-> conc, dt |-> dt]
    /\ occSteps' = occSteps + 1
    /\ UNCHANGED occSpecies

OccNext == OccStep

-----------------------------------------------------------------------------
(* Solver::assembleSystem on networks whose links hold a mass flow and a   *)
(* derivative, for every unknown map.                                      *)

MaxAsmLinks == 3

\* a link as computeFlows leaves it
AsmLink(from, to, massFlow, derivative) ==
    [MkLink(from, to, RZero, <<>>) EXCEPT !.massFlow = massFlow, !.derivative = derivative]

\* The links explored: between the nodes 0, 1 and 2, in both directions,
\* from a node to itself, with flows of both signs
AsmLinks ==
    {AsmLink(e[1], e[2], f[1], f[2]) :
        e \in {<<0, 1>>, <<1, 2>>, <<2, 1>>, <<2, 2>>},
        f \in {<<ROne, ROne>>, <<R(-2), R(3)>>}}

AsmLinkLists == UNION {[1..k -> AsmLinks] : k \in 0..MaxAsmLinks}

\* The networks explored: three nodes, the first Ambient or not
AsmNetworks ==
    {MkNetwork(ty, <<RZero, RZero, RZero>>, <<ROne, ROne, ROne>>,
               <<RZero, RZero, RZero>>, ls) :
        ty \in {<<"Ambient", "Normal", "Normal">>, <<"Normal", "Normal", "Normal">>},
        ls \in AsmLinkLists}

\* The unknown maps of a network: -1 for an Ambient node, the other nodes
\* numbered 0..n-1 in any order
AsmUnknownMaps(nw) ==
    {[i \in DOMAIN nw.type |->
        IF baseUnknownMap(nw, i) < 0 THEN -1 ELSE f[baseUnknownMap(nw, i) + 1] - 1] :
        f \in Bijections(getUnknownCount(nw))}

AsmInit ==
    /\ asmNet \in AsmNetworks
    /\ asmMap \in AsmUnknownMaps(asmNet)
    /\ asmJ = <<>>
    /\ asmR = <<>>
    /\ asmPc = "ready"

\* assembleSystem(network, J, R, unknownMap)
AsmAssemble ==
    /\ asmPc = "ready"
    /\ asmJ' = assembleJ(asmNet, asmMap, getUnknownCount(asmNet))
    /\ asmR' = assembleR(asmNet, asmMap, getUnknownCount(asmNet))
    /\ asmPc' = "assembled"
    /\ UNCHANGED <<asmNet, asmMap>>

AsmNext == AsmAssemble

-----------------------------------------------------------------------------
(* The unknown map of Solver::solve: baseUnknownMap, computeRCMOrdering,   *)
(* invPerm and the reordered unknownMap.                                   *)

\* The networks explored: three nodes, none, one or all of them Ambient,
\* with every list of links, so that unknowns are joined in a chain, in
\* part or not at all
RcmNetworks ==
    {MkNetwork(ty, <<RZero, RZero, RZero>>, <<ROne, ROne, ROne>>,
               <<RZero, RZero, RZero>>, ls) :
        ty \in {<<"Normal", "Normal", "Normal">>, <<"Ambient", "Normal", "Normal">>,
                <<"Normal", "Normal", "Ambient">>, <<"Ambient", "Ambient", "Ambient">>},
        ls \in AsmLinkLists}

\* invPerm of solve: n zeros, then invPerm[rcmPerm[i]] = i for i = 0..n-1
\* in turn
invPerm(rcmPerm, n) ==
    [old \in 0..(n - 1) |->
        IF \E q \in 1..Len(rcmPerm) : q <= n /\ rcmPerm[q] = old
        THEN (CHOOSE q \in 1..Len(rcmPerm) :
                 /\ q <= n /\ rcmPerm[q] = old
                 /\ \A m \in 1..Len(rcmPerm) : (m <= n /\ rcmPerm[m] = old) => m <= q) - 1
        ELSE 0]

\* the reordered unknownMap of solve
reorderedUnknownMap(nw, rcmPerm) ==
    [i \in DOMAIN nw.type |->
        IF baseUnknownMap(nw, i) >= 0
        THEN invPerm(rcmPerm, getUnknownCount(nw))[baseUnknownMap(nw, i)]
        ELSE -1]

RcmInit ==
    /\ rcmNet \in RcmNetworks
    /\ rcmOut = <<>>
    /\ rcmMap = <<>>
    /\ rcmPc = "start"

\* auto rcmPerm = computeRCMOrdering(network, baseUnknownMap, n)
RcmOrder ==
    /\ rcmPc = "start"
    /\ rcmOut' = computeRCMOrdering(rcmNet)
    /\ rcmPc' = "ordered"
    /\ UNCHANGED <<rcmNet, rcmMap>>

\* invPerm and unknownMap are built; the loop reads rcmPerm[0..n-1], which
\* an ordering of n entries has
RcmMap ==
    /\ rcmPc = "ordered"
    /\ Len(rcmOut) = getUnknownCount(rcmNet)
    /\ rcmMap' = reorderedUnknownMap(rcmNet, rcmOut)
    /\ rcmPc' = "mapped"
    /\ UNCHANGED <<rcmNet, rcmOut>>

RcmNext == RcmOrder \/ RcmMap

-----------------------------------------------------------------------------
(* Properties of TransientSimulation::run.                                 *)

StrictlyIncreasing(s) == \A i \in 1..(Len(s) - 1) : s[i] < s[i + 1]

AtMostOneAt(s, x) == Cardinality({i \in 1..Len(s) : s[i] = x}) <= 1

\* the snapshot times are strictly increasing, start at startTime, and hold
\* endTime at most once
OrderedHistory ==
    /\ StrictlyIncreasing(history)
    /\ history[1] = config.startTime
    /\ AtMostOneAt(history, config.endTime)

\* C1 as stated: for every configuration the snapshot times are strictly
\* increasing, the first is startTime, and endTime is recorded at most once.
C1_Original == OrderedHistory

\* C1 (amended): for every configuration with timeStep > 0 the snapshot
\* times are strictly increasing, the first is startTime, and at most one
\* snapshot has time endTime.
C1_SnapshotTimes == config.timeStep > 0 => OrderedHistory

\* a run with timeStep > 0 whose last output time coincides with endTime
C1_Witness ==
    /\ pc = "done" /\ completed
    /\ config.timeStep > 0
    /\ Len(history) >= 3
    /\ Last(history) = config.endTime
    /\ Last(emitDue) = config.endTime

\* the output schedule: startTime + outputInterval, advanced per emission
ScheduleAdvances ==
    \A i \in 1..Len(emitDue) :
        emitDue[i] = config.startTime + (i - 1) * config.outputInterval

\* C2 as stated: every snapshot after the initial one is emitted at a time
\* at or after the scheduled output time in force.
C2_Original ==
    /\ ScheduleAdvances
    /\ \A i \in 2..Len(history) : history[i] >= emitDue[i]

\* C2 (amended): every snapshot after the initial one is emitted at a time
\* that is at least the scheduled output time minus 1e-10, or at least
\* endTime minus 1e-10 (the final state is recorded whatever the schedule).
C2_EmittedWhenDue ==
    /\ ScheduleAdvances
    /\ \A i \in 2..Len(history) :
          \/ history[i] >= emitDue[i] - EPS
          \/ history[i] >= config.endTime - EPS

\* a snapshot emitted by the schedule before the end, after a step without one
C2_Witness ==
    /\ pc = "callback"
    /\ steps >= 2
    /\ Len(history) = 2
    /\ history[2] >= emitDue[2]
    /\ t < config.endTime - EPS

\* C3: a false answer of the progress callback ends run() at once with
\* completed = false and the history as it was at that step; nothing else
\* ends a run with completed = false; the callback runs once per step.
C3_Cancellation ==
    /\ cancelled => /\ pc = "done"
                    /\ ~completed
                    /\ cbCalls = steps
                    /\ Len(history) = histAtCb
    /\ (pc = "done" /\ ~completed) => cancelled
    /\ feat.callback =>
          cbCalls = (IF pc \in {"loop", "done"} THEN steps ELSE steps - 1)

\* a run cancelled in its third step or later, with snapshots recorded
C3_Witness ==
    /\ cancelled
    /\ steps >= 3
    /\ Len(history) >= 3

PhaseRank(p) ==
    CASE p = "temperature" -> 1
      [] p = "weather"     -> 2
      [] p = "wpc"         -> 3
      [] p = "control"     -> 4
      [] p = "airflow"     -> 5
      [] p = "contaminant" -> 6
      [] p = "coupling"    -> 7
      [] p = "occupant"    -> 8
      [] p = "snapshot"    -> 9

InLog(p) == \E i \in 1..Len(phaseLog) : phaseLog[i] = p

\* C4: within a step the phases run in the order boundary conditions,
\* control, airflow, contaminant, density coupling, occupants, snapshot,
\* and a finished step has run every phase its inputs call for.
C4_PhaseOrder ==
    /\ \A i \in 1..Len(phaseLog) : \A j \in (i + 1)..Len(phaseLog) :
          \/ PhaseRank(phaseLog[i]) < PhaseRank(phaseLog[j])
          \/ phaseLog[i] = "coupling" /\ phaseLog[j] = "coupling"
    /\ pc = "callback" =>
          /\ feat.tempSched => InLog("temperature")
          /\ feat.weather => InLog("weather")
          /\ feat.wpc => InLog("wpc")
          /\ feat.controllers => InLog("control")
          /\ InLog("airflow")
          /\ feat.contaminants => InLog("contaminant")
          /\ (feat.contaminants /\ feat.nonTrace) => InLog("coupling")
          /\ (feat.contaminants /\ feat.occupants) => InLog("occupant")
          /\ InLog("snapshot") => Last(history) = t

\* a finished step that ran all nine phases, the coupling loop twice or more
C4_Witness ==
    /\ pc = "callback"
    /\ \A r \in 1..9 : \E i \in 1..Len(phaseLog) : PhaseRank(phaseLog[i]) = r
    /\ Len(phaseLog) >= 10

\* what C5 says of the states of a run, up to the time of the last snapshot
C5_Steps ==
    /\ (pc = "done" /\ ~cancelled) => completed
    /\ pc \in {"bc", "control", "airflow", "contaminant", "coupling", "advance"} =>
          currentDt = Min(config.timeStep, config.endTime - t)
    /\ config.startTime <= config.endTime => t <= config.endTime

-----------------------------------------------------------------------------
(* Properties of ContaminantSolver.                                        *)

AmbientZones == {i \in DOMAIN C : isKnownPressure(net, i)}
InteriorZones == {i \in DOMAIN C : ~isKnownPressure(net, i)}

\* C6: after every step each non-Ambient concentration is >= 0 and each
\* Ambient concentration equals the species' outdoorConc.
C6_AfterStep ==
    cpc = "stepped" =>
       /\ \A i \in InteriorZones : \A k \in DOMAIN C[i] : RLe(RZero, C[i][k])
       /\ \A i \in AmbientZones : \A k \in DOMAIN C[i] : C[i][k] = species[k].outdoorConc

\* after a step: a zone with a negative source was clamped to zero, another
\* concentration is positive, and an overwritten Ambient zone was restored
C6_Witness ==
    /\ cpc = "stepped"
    /\ csets >= 1
    /\ AmbientZones # {}
    /\ \E i \in InteriorZones : \E k \in DOMAIN C[i] :
          /\ C[i][k] = RZero
          /\ \E s \in 1..Len(sources) :
                /\ sources[s].zoneId = i
                /\ sources[s].speciesId = species[k].id
                /\ RLt(sources[s].generationRate, RZero)
    /\ \E i \in InteriorZones : \E k \in DOMAIN C[i] : RLt(RZero, C[i][k])

\* C7 as stated: in every state of the solver the Ambient concentrations equal
\* the outdoor background, and the inflow of a step from an Ambient donor
\* uses outdoorConc.
C7_AmbientIsOutdoor ==
    /\ \A i \in AmbientZones : \A k \in DOMAIN C[i] : C[i][k] = species[k].outdoorConc
    /\ \A d \in ambDonor : d[2] = species[d[1]].outdoorConc

\* C8 as stated: with a reaction from -> to of positive rate and a positive
\* source of the consumed species in a non-Ambient zone, the produced
\* species is present in that zone after repeated steps.
C8_ReactionProduces ==
    (cpc = "stepped" /\ csteps >= 2) =>
       \A r \in 1..Len(rxnNetwork) : \A s \in 1..Len(sources) :
          (/\ RLt(RZero, rxnNetwork[r].rate)
           /\ sources[s].speciesId = species[rxnNetwork[r].from].id
           /\ RLt(RZero, sources[s].generationRate)
           /\ sources[s].zoneId \in InteriorZones)
          => RLt(RZero, C[sources[s].zoneId][rxnNetwork[r].to])

\* C9 as stated: the generation term of an ExponentialDecay source with
\* G0 > 0 is below multiplier * G0 once time has passed its startTime, and
\* strictly decreases from one step to the next.
C9_DecayingGeneration ==
    \A s \in 1..Len(sources) :
       (sources[s].type = "ExponentialDecay" /\ RLt(RZero, sources[s].generationRate)) =>
          /\ \A n \in 1..Len(genLog) :
                RLt(genLog[n][s], RMul(sources[s].multiplier, sources[s].generationRate))
          /\ \A n \in 1..(Len(genLog) - 1) : RLt(genLog[n + 1][s], genLog[n][s])

-----------------------------------------------------------------------------
(* Properties of the flow elements.                                        *)

\* C10 as stated: the derivative returned by calculate is >= 0 for every
\* element, every deltaP and every density > 0.
C10_DerivativeNonNegative ==
    elemOut # <<>> => RLe(RZero, elemOut.derivative.m)

-----------------------------------------------------------------------------
(* Properties of Solver::solve and of the density coupling.                *)

\* C11 as stated: in the density-coupling loop the re-solve of each outer
\* iteration computes its link flows from the mixture-corrected densities
\* that updateDensitiesFromConcentrations wrote into the network.
C11_ResolveUsesCorrected ==
    (alast # <<>> /\ alast.inCoupling /\ alast.tr.flowRho # <<>>) =>
        alast.tr.flowRho[1] = alast.nwIn.rho

\* the coupling loop of the step in progress has made at most
\* MAX_COUPLING_ITER passes, and is left as soon as a pass finds the change
\* below DENSITY_TOL
CouplingBounded ==
    /\ aiter <= MAX_COUPLING_ITER
    /\ Len(arel) <= MAX_COUPLING_ITER
    /\ \A i \in 1..(Len(arel) - 1) : ~RLt(arel[i], DENSITY_TOL)
    /\ (arel # <<>> /\ RLt(arel[Len(arel)], DENSITY_TOL)) => apc # "coupling"

\* the maximum relative density change does not grow from one pass to the next
ChangeNonIncreasing == \A i \in 1..(Len(arel) - 1) : RLe(arel[i + 1], arel[i])

C13_ResultContract ==
    alast # <<>> =>
        /\ alast.res.converged \in BOOLEAN
        /\ alast.res.iterations <= asolver.maxIterations
        /\ alast.res.converged => RLt(alast.res.maxResidual, asolver.convergenceTol)
        /\ (/\ alast.res.iterations = asolver.maxIterations
            /\ ~RLt(alast.res.maxResidual, asolver.convergenceTol))
           => ~alast.res.converged

\* a solve that used up its iteration limit of two or more updates without
\* converging, after which the step went on
C13_Witness ==
    /\ alast # <<>>
    /\ ~alast.res.converged
    /\ ~alast.tr.solveFailed
    /\ alast.res.iterations = asolver.maxIterations
    /\ asolver.maxIterations >= 2
    /\ apc = "contaminant"

\* the last call of solve stopped at a failed linear solve: its result is not
\* converged and the pressures are those its last iteration started from
FailedSolveKeepsPressures ==
    (alast # <<>> /\ alast.tr.solveFailed) =>
        /\ ~alast.res.converged
        /\ alast.res.pressures = alast.tr.iterP
        /\ alast.nwOut.P = alast.tr.iterP

\* a call of solve by the driver that ends in a failed linear solve takes the
\* driver to the next phase of its step
DriverGoesOn ==
    ((apc = "solve" \/ (apc = "coupling" /\ aiter < MAX_COUPLING_ITER))
        /\ alast' # <<>> /\ alast'.tr.solveFailed)
    => apc' \in {"contaminant", "coupling", "done"}

\* C14: when the linear solve of an iteration fails, solve stops there: no
\* pressure is updated in that iteration, the result is returned, without
\* raising, as not converged, and the driver goes on with its step.
C14_LinearSolveFailure == []FailedSolveKeepsPressures /\ [][DriverGoesOn]_vars

\* a solve of step 2 whose Jacobian was singular with a residual above the
\* tolerance, after which the driver is at the contaminant step
C14_Witness ==
    /\ alast # <<>>
    /\ alast.tr.solveFailed
    /\ ~alast.inCoupling
    /\ ~RLt(alast.res.maxResidual, asolver.convergenceTol)
    /\ apc = "contaminant"

\* the flows and derivatives computeFlows finds for the network a call of
\* solve left, at the densities of its final pressures
RecomputedLinks(nw) == computeFlows(updateAllDensities(nw)).links

\* the result holds one pressure per node and one mass flow per link, those
\* of the network
ResultShape(call) ==
    /\ DOMAIN call.res.pressures = DOMAIN call.nwOut.type
    /\ DOMAIN call.res.massFlows = DOMAIN call.nwOut.links
    /\ \A i \in DOMAIN call.nwOut.type : call.res.pressures[i] = call.nwOut.P[i]
    /\ \A k \in DOMAIN call.nwOut.links :
          call.res.massFlows[k] = call.nwOut.links[k].massFlow

\* C15 as stated: for every network, one without non-Ambient node included,
\* the result of solve holds one pressure per node and one mass flow per
\* link, and the link flows are those computed from the final pressures.
C15_ResultComplete ==
    alast # <<>> =>
        /\ ResultShape(alast)
        /\ \A k \in DOMAIN alast.nwOut.links :
              RecomputedLinks(alast.nwOut)[k].massFlow = alast.nwOut.links[k].massFlow

\* C16 as stated: whenever the result is converged, recomputing each link's
\* flow and derivative from the stored pressures reproduces the cached values
\* of the link and the returned massFlows.
C16_ConvergedRoundTrip ==
    (alast # <<>> /\ alast.res.converged) =>
        /\ RecomputedLinks(alast.nwOut) = alast.nwOut.links
        /\ DOMAIN alast.res.massFlows = DOMAIN alast.nwOut.links
        /\ \A k \in DOMAIN alast.nwOut.links :
              alast.res.massFlows[k] = RecomputedLinks(alast.nwOut)[k].massFlow

-----------------------------------------------------------------------------
(* Properties of Controller::update and of the control step.  The sums,    *)
(* differences and products are those of the floating-point format.        *)

\* the controllers the last updateControllers call updated
Updated ==
    IF klast = <<>> THEN {}
    ELSE {q \in DOMAIN klast.before : sensorsOf(klast.before[q], klast.sens) # {}}

\* the sensor value that update of controller q was given
UpdSensor(q) == klast.sens[First(sensorsOf(klast.before[q], klast.sens))].lastReading

\* e = setpoint - sensor, replaced by 0 when |e| < deadband
UpdError(q) ==
    IF RLt(RAbs(FSub(klast.before[q].setpoint, UpdSensor(q))), klast.before[q].deadband)
    THEN RZero
    ELSE FSub(klast.before[q].setpoint, UpdSensor(q))

\* the integral of controller q that includes this step's e * dt
UpdIntegral(q, e) == FAdd(klast.before[q].integral, FMul(e, klast.dt))

\* Kp * e + Ki * integral
UpdRaw(q, e, integ) == FAdd(FMul(ctrl[q].Kp, e), FMul(ctrl[q].Ki, integ))

\* raw lies outside [outputMin, outputMax] of controller q
Saturated(q, raw) == RLt(raw, ctrl[q].outputMin) \/ RLt(ctrl[q].outputMax, raw)

\* clamp(raw, outputMin, outputMax) of controller q
Clamped(q, raw) ==
    IF RLt(raw, ctrl[q].outputMin) THEN ctrl[q].outputMin
    ELSE IF RLt(ctrl[q].outputMax, raw) THEN ctrl[q].outputMax
    ELSE raw

\* the output of controller q is in its range and is the clamped raw
OutputIs(q, raw) ==
    /\ RLe(ctrl[q].outputMin, ctrl[q].output)
    /\ RLe(ctrl[q].output, ctrl[q].outputMax)
    /\ ctrl[q].output = Clamped(q, raw)

GrowsAndOutput(q, integ, raw) ==
    /\ ~Saturated(q, raw) => ctrl[q].integral = integ
    /\ ctrl[q].output = Clamped(q, raw)

\* the integral a saturated update leaves
BackOut(q, x, integ, raw) ==
    /\ Saturated(q, raw) => ctrl[q].integral = FSub(integ, x)
    /\ (Saturated(q, raw) /\ integ = RAdd(klast.before[q].integral, x))
           => ctrl[q].integral = klast.before[q].integral

ControlStepDone == kpc = "airflow" /\ ctrl # <<>>

\* what run() executes between the boundary updates and the airflow solve
PipelineWithoutLogic == ControlStepDone => klog = <<"sensors", "controllers", "actuators">>

\* the sensors hold what the state left by the previous step shows
SensorsReadPlant ==
    kpc = "controllers" => \A q \in DOMAIN sens : sens[q].lastReading = sensorReading(plant, sens[q])

\* C19: in each step that has controllers the control pipeline runs, before
\* the airflow solve, in the order: sensors read the state left by the
\* previous step, logic nodes are evaluated, controllers update, actuators
\* swap the modified elements into the links.
C19_PipelineOrder ==
    /\ SensorsReadPlant
    /\ ControlStepDone => klog = <<"sensors", "logic", "controllers", "actuators">>

\* the element type an actuator type acts on
ActuatedKind(type) ==
    CASE type = "DamperFraction" -> "Damper"
      [] type = "FanSpeed" -> "Fan"
      [] type = "FilterBypass" -> "Filter"

\* the actuators that have an element of their kind to act on, and that no
\* later actuator of the list overrides
Acting ==
    {q \in DOMAIN acts :
        /\ acts[q].linkIdx \in DOMAIN kelems
        /\ kelems[acts[q].linkIdx] # <<>>
        /\ kelems[acts[q].linkIdx].kind = ActuatedKind(acts[q].type)
        /\ \A q2 \in DOMAIN acts : q2 > q => acts[q2].linkIdx # acts[q].linkIdx}

\* the element of the link of actuator q holds the controller output and is
\* an object created by this call of applyActuators
ElementReplaced(q) ==
    /\ kelems[acts[q].linkIdx].setting = ctrlOutput(ctrl, acts[q])
    /\ kelems[acts[q].linkIdx].obj >= kfresh - Len(acts)

\* what applyActuators does for the actuators of type DamperFraction
DampersReplaced ==
    ControlStepDone => \A q \in Acting : acts[q].type = "DamperFraction" => ElementReplaced(q)

\* C20: after applyActuators the element of the link of every actuator, of
\* each of the three types DamperFraction, FanSpeed and FilterBypass,
\* reflects the controller output, and it is a replacement of the element
\* the link held, not that element modified in place.
C20_ActuatorsApplied ==
    ControlStepDone => \A q \in Acting : ElementReplaced(q)

-----------------------------------------------------------------------------
(* Properties of Schedule::getValue.                                       *)

\* the points of the schedule, as a collection without order
PointSet == {schedPts[i] : i \in DOMAIN schedPts}

\* no two points of the schedule have the same time
DistinctTimes ==
    \A i, j \in DOMAIN schedPts : i # j => schedPts[i].time # schedPts[j].time

\* the first and the last point of a collection of points
Earliest(P) == CHOOSE p \in P : \A q \in P : RLe(p.time, q.time)
Latest(P) == CHOOSE p \in P : \A q \in P : RLe(q.time, p.time)

\* the last point at or before tq, the first point at or after it, and the
\* last point strictly before it
PointBefore(P, tq) == Latest({p \in P : RLe(p.time, tq)})
PointAfter(P, tq) == Earliest({p \in P : RLe(tq, p.time)})
PointStrictlyBefore(P, tq) == Latest({p \in P : RLt(p.time, tq)})

\* the linear interpolation at tq of the points p and q, p if they coincide
Linear(p, q, tq) ==
    IF p.time = q.time THEN p.value
    ELSE RAdd(p.value, RDiv(RMul(RSub(q.value, p.value), RSub(tq, p.time)),
                            RSub(q.time, p.time)))

\* the value at tq of the piecewise-linear function through the points P
ValueOfPoints(P, tq) ==
    IF P = {} THEN ROne
    ELSE IF RLe(tq, Earliest(P).time) THEN Earliest(P).value
    ELSE IF RLe(Latest(P).time, tq) THEN Latest(P).value
    ELSE Linear(PointBefore(P, tq), PointAfter(P, tq), tq)

\* the same, except that between two points p and q closer than 1e-15,
\* and at q, the value is that of p
ValueOfDistinct(P, tq) ==
    IF P = {} THEN ROne
    ELSE IF RLe(tq, Earliest(P).time) THEN Earliest(P).value
    ELSE IF RLe(Latest(P).time, tq) THEN Latest(P).value
    ELSE IF RLt(RSub(PointAfter(P, tq).time, PointStrictlyBefore(P, tq).time),
                R(SCHED_DT_MIN))
    THEN PointStrictlyBefore(P, tq).value
    ELSE Linear(PointStrictlyBefore(P, tq), PointAfter(P, tq), tq)

\* C21: for points with pairwise distinct times, added in any order,
\* getValue(t) returns the first point's value for t at or before the first
\* point, the last point's value for t at or after the last point, the
\* single value of a one-point schedule, 1.0 for an empty schedule, and in
\* between the linear interpolation of the two bracketing points, unless
\* these are less than 1e-15 apart: then the value of the earlier of the two.
C21_GetValue ==
    (schedRes # <<>> /\ DistinctTimes) =>
        schedRes.value = ValueOfDistinct(PointSet, schedRes.time)

\* three points added out of order, and a value interpolated between two of
\* them that differ
C21_Witness ==
    /\ schedRes # <<>>
    /\ DistinctTimes
    /\ schedMoved
    /\ Len(schedPts) = 3
    /\ RLt(schedPts[2].time, schedRes.time)
    /\ RLt(schedRes.time, schedPts[3].time)
    /\ schedRes.value # schedPts[2].value
    /\ schedRes.value # schedPts[3].value

\* C21 as stated: whatever the points and their order of addition, the
\* value is that of the piecewise-linear function through the points
C21_Original ==
    schedRes # <<>> => schedRes.value = ValueOfPoints(PointSet, schedRes.time)

\* tq lies inside the range of the points
InsideRange(P, tq) == P # {} /\ RLt(Earliest(P).time, tq) /\ RLt(tq, Latest(P).time)

\* C22: a schedule in StepHold mode returns, for t inside the range, the
\* value of the point that starts the current interval, holding it up to and
\* including the time of the next point; Linear mode interpolates.
C22_StepHold ==
    (schedRes # <<>> /\ DistinctTimes /\ InsideRange(PointSet, schedRes.time)) =>
        /\ schedMode = "StepHold" =>
               schedRes.value = PointStrictlyBefore(PointSet, schedRes.time).value
        /\ schedMode = "Linear" =>
               schedRes.value = ValueOfDistinct(PointSet, schedRes.time)

-----------------------------------------------------------------------------
(* Properties of the WPC readers.                                          *)

\* the times of the record lines of the input, in order
RecordTimes(in) ==
    [i \in 1..Len(SelectSeq(in, LAMBDA l : l.kind = "record")) |->
        SelectSeq(in, LAMBDA l : l.kind = "record")[i].time]

\* some record's time is less than or equal to that of the record before it
SomeTimeNotAfter(ts) == \E i \in 1..(Len(ts) - 1) : ts[i + 1] <= ts[i]

\* some record's time is less than that of the record before it
SomeTimeBefore(ts) == \E i \in 1..(Len(ts) - 1) : ts[i + 1] < ts[i]

\* the reader has returned or thrown
WpcDone == wpcStatus \in {"returned", "thrown"}

\* what the readers do reject: a time that goes backwards
DecreasingRejected ==
    (WpcDone /\ SomeTimeBefore(RecordTimes(wpcIn))) =>
        wpcStatus = "thrown" /\ wpcRecords = <<>>

\* C23: readPressureString and readConcentrationString accept only strictly
\* increasing record times: for every input in which some record's time is
\* less than or equal to the time of the record before it they raise an
\* error and return no records.
C23_StrictlyIncreasing ==
    (WpcDone /\ SomeTimeNotAfter(RecordTimes(wpcIn))) =>
        wpcStatus = "thrown" /\ wpcRecords = <<>>

-----------------------------------------------------------------------------
(* Properties of the dynamic sources of a step.                            *)

\* a contaminant solve has just returned
DynSolved == dynPc = "next" /\ dynSetup.hasContaminants

\* what a solve used beyond the static sources
DynamicPart(used) == SubSeq(used, Len(dynSetup.static) + 1, Len(used))

\* a solve uses the static sources and, once each, the dynamic sources
\* built in its own step
UsesOwnStep ==
    DynSolved =>
        /\ Len(dynUsed) >= Len(dynSetup.static)
        /\ SubSeq(dynUsed, 1, Len(dynSetup.static)) = dynSetup.static
        /\ DynamicPart(dynUsed) = dynBuilt

\* the occupants stay where they are, so two solves in a row use the same
\* occupant sources
SameInjection ==
    (DynSolved /\ dynSteps >= 1) =>
        ofOrigin(dynUsed, "occupant") = ofOrigin(dynPrev, "occupant")

-----------------------------------------------------------------------------
(* Properties of the trust-region update.                                  *)

\* the pressure step an update applied to the unknowns
AppliedStep(u) ==
    [a \in 0..(u.n - 1) |->
        RSum([i \in DOMAIN u.umap |->
                 IF u.umap[i] = a THEN RSub(u.after[i], u.before[i]) ELSE RZero],
             DOMAIN u.umap)]

\* the Newton step is longer than the radius in force
StepClamped(u) == RLt(u.radius, vecNorm(u.dP, u.n))

\* the applied step is the Newton step times s, and no other pressure moves
ScaledBy(u, s) ==
    \A i \in DOMAIN u.umap :
        u.after[i] = IF u.umap[i] >= 0 THEN RAdd(u.before[i], RMul(s, u.dP[u.umap[i]]))
                     ELSE u.before[i]

RadiusInBounds(r) == RLe(TR_MIN_RADIUS, r) /\ RLe(r, TR_MAX_RADIUS)

TrUpdateOk(u) ==
    /\ ScaledBy(u, IF StepClamped(u) THEN RDiv(u.radius, vecNorm(u.dP, u.n)) ELSE ROne)
    /\ RLe(vecNorm(AppliedStep(u), u.n), u.radius)
    /\ u.radiusAfter = IF StepClamped(u)
                       THEN RMax(RDiv(u.radius, R(2)), TR_MIN_RADIUS)
                       ELSE RMin(RMul(R(2), u.radius), TR_MAX_RADIUS)
    /\ RadiusInBounds(u.radius) => RadiusInBounds(u.radiusAfter)

\* C25: every trust-region update of a solve applies the Newton step scaled
\* to a norm of at most the radius in force, then halves the radius (not
\* below TR_MIN_RADIUS) if the step was clamped and doubles it (not above
\* TR_MAX_RADIUS) otherwise, so that the radius stays within
\* [TR_MIN_RADIUS, TR_MAX_RADIUS]
C25_TrustRegionUpdate ==
    /\ (trNet # <<>> /\ RadiusInBounds(TR_INITIAL_RADIUS)) => RadiusInBounds(trRadius)
    /\ trLast # <<>> => TrUpdateOk(trLast) /\ trRadius = trLast.radiusAfter

\* a clamped update of two unknowns whose halved radius is raised to the
\* minimum
C25_Witness ==
    /\ trLast # <<>>
    /\ trLast.n = 2
    /\ StepClamped(trLast)
    /\ RLt(RDiv(trLast.radius, R(2)), TR_MIN_RADIUS)
    /\ trLast.radiusAfter = TR_MIN_RADIUS

\* a full step whose doubled radius is cut to the maximum
TrCapped ==
    /\ trLast # <<>>
    /\ ~StepClamped(trLast)
    /\ trLast.dP[0] # RZero
    /\ RLt(TR_MAX_RADIUS, RMul(R(2), trLast.radius))
    /\ trLast.radiusAfter = TR_MAX_RADIUS

-----------------------------------------------------------------------------
(* Properties of a step without flow.                                      *)

\* the solver has just made a step in which every link's mass flow was zero
ZeroFlowStep ==
    /\ cpc = "stepped"
    /\ clast # <<>>
    /\ \A l \in DOMAIN clast.flows : clast.flows[l] = RZero

\* species k does not decay and has no source or sink in any zone
Inert(k) ==
    /\ species[k].decayRate = RZero
    /\ \A s \in 1..Len(sources) : sources[s].speciesId # species[k].id

\* C26: a step in which every link's mass flow is zero leaves the
\* concentration of a species without decay, source or sink as it was in
\* every zone that is not Ambient and held a non-negative concentration,
\* zones of volume zero included
C26_ZeroFlowUnchanged ==
    ZeroFlowStep =>
        \A k \in DOMAIN species : \A i \in DOMAIN net.type :
            (Inert(k) /\ ~isKnownPressure(net, i) /\ RLe(RZero, clast.before[i][k]))
                => C[i][k] = clast.before[i][k]

\* such a step with a positive concentration in a zone of volume zero and
\* in a zone with volume
C26_Witness ==
    /\ ZeroFlowStep
    /\ \E k \in DOMAIN species :
        /\ Inert(k)
        /\ \E i \in DOMAIN net.type :
            /\ ~isKnownPressure(net, i)
            /\ net.volume[i] = RZero
            /\ RLt(RZero, clast.before[i][k])
        /\ \E i \in DOMAIN net.type :
            /\ ~isKnownPressure(net, i)
            /\ RLt(RZero, net.volume[i])
            /\ RLt(RZero, clast.before[i][k])

-----------------------------------------------------------------------------
(* Properties of the occupant update.                                      *)

\* the occupant has a schedule
HasSchedule(occ) == occ.scheduleId >= 0 /\ occ.scheduleId \in DOMAIN OccSchedules

\* z is an integer nearest to v
Nearest(v, z) == RLe(RAbs(RSub(v, R(z))), <<1, 2>>)

\* z is an index of a zone of the last update
ValidZone(z) == z >= 0 /\ z < Len(occLast.conc)

\* the value of the occupant's schedule at the time of the last update
ScheduledZone(occ) == getValue(OccSchedules[occ.scheduleId], occTime)

\* the occupant is where its schedule sends it, or where it was
MovedBySchedule(before, after) ==
    IF HasSchedule(before)
    THEN \E z \in -2..6 :
            /\ Nearest(ScheduledZone(before), z)
            /\ after.currentZoneIdx = IF ValidZone(z) THEN z ELSE before.currentZoneIdx
    ELSE after.currentZoneIdx = before.currentZoneIdx

\* the exposure record of species k the update started from
PriorExposure(before, k) ==
    IF Len(before.exposure) = occSpecies THEN before.exposure[k]
    ELSE [cumulativeDose |-> RZero, peakConcentration |-> RZero, timeAtPeak |-> RZero]

\* the dose inhaled from concentration c in the last step
DoseOf(occ, c) == RMul(RMul(occ.breathingRate, c), occLast.dt)

\* the exposure has grown by what the zone the occupant is now in holds
ExposedInZone(before, after) ==
    ValidZone(after.currentZoneIdx) =>
        \A k \in 1..occSpecies :
            \A c \in {occLast.conc[after.currentZoneIdx + 1][k]} :
                /\ after.exposure[k].cumulativeDose =
                       RAdd(PriorExposure(before, k).cumulativeDose, DoseOf(before, c))
                /\ after.exposure[k].peakConcentration =
                       RMax(PriorExposure(before, k).peakConcentration, c)

\* C27: the occupant update first moves each occupant that has a schedule
\* to the zone whose index is the schedule value rounded to the nearest
\* integer, if that is the index of a zone (the occupant stays otherwise),
\* then adds breathingRate * C * dt to cumulativeDose and raises the peak to
\* C if C is higher, with C the concentration of the zone the occupant is
\* now in
C27_OccupantUpdate ==
    occLast # <<>> =>
        \A q \in DOMAIN occupants :
            /\ MovedBySchedule(occLast.before[q], occupants[q])
            /\ ExposedInZone(occLast.before[q], occupants[q])

\* an occupant whose schedule value 3/4 moved it from zone 0 to zone 1,
\* where it inhaled a dose and met a new peak
C27_Witness ==
    /\ occLast # <<>>
    /\ \E q \in DOMAIN occupants :
        /\ HasSchedule(occLast.before[q])
        /\ ScheduledZone(occLast.before[q]) = <<3, 4>>
        /\ occLast.before[q].currentZoneIdx = 0
        /\ occupants[q].currentZoneIdx = 1
        /\ RLt(PriorExposure(occLast.before[q], 1).cumulativeDose,
               occupants[q].exposure[1].cumulativeDose)
        /\ RLt(RZero, PriorExposure(occLast.before[q], 1).peakConcentration)
        /\ RLt(PriorExposure(occLast.before[q], 1).peakConcentration,
               occupants[q].exposure[1].peakConcentration)

\* an occupant whose schedule names no zone stays where it was
StaysPut ==
    /\ occLast # <<>>
    /\ \E q \in DOMAIN occupants :
        /\ HasSchedule(occLast.before[q])
        /\ \E z \in -2..6 : Nearest(ScheduledZone(occLast.before[q]), z) /\ ~ValidZone(z)
        /\ occupants[q].currentZoneIdx = occLast.before[q].currentZoneIdx
        /\ ValidZone(occupants[q].currentZoneIdx)

-----------------------------------------------------------------------------
(* Properties of Solver::assembleSystem.                                   *)

AsmUnknowns == 0..(getUnknownCount(asmNet) - 1)

\* the links with one end at unknown a and the other end elsewhere
IncidentLinks(a) ==
    {k \in DOMAIN asmNet.links :
        /\ asmNet.links[k].from # asmNet.links[k].to
        /\ asmMap[asmNet.links[k].from] = a \/ asmMap[asmNet.links[k].to] = a}

\* the links that join the unknowns a and b
LinksBetween(a, b) ==
    {k \in DOMAIN asmNet.links :
        {asmMap[asmNet.links[k].from], asmMap[asmNet.links[k].to]} = {a, b}}

\* the links that are not loops and end (start) at unknown a
LinksInto(a) ==
    {k \in IncidentLinks(a) : asmMap[asmNet.links[k].to] = a}
LinksOutOf(a) ==
    {k \in IncidentLinks(a) : asmMap[asmNet.links[k].from] = a}

DerivativeSum(S) == RSum([k \in DOMAIN asmNet.links |-> asmNet.links[k].derivative], S)
MassFlowSum(S) == RSum([k \in DOMAIN asmNet.links |-> asmNet.links[k].massFlow], S)

\* C28: assembleSystem leaves a symmetric Jacobian whose entry for two
\* unknowns is the sum of the derivatives of all links joining them, whose
\* diagonal entry for unknown a is minus the sum of the derivatives of all
\* links incident on a (those to Ambient nodes included), and a residual
\* equal to the net mass inflow into a; a link from a node to itself adds
\* nothing to either
C28_AssembledSystem ==
    asmPc = "assembled" =>
        \A a \in AsmUnknowns :
            /\ asmJ[a][a] = RNeg(DerivativeSum(IncidentLinks(a)))
            /\ asmR[a] = RSub(MassFlowSum(LinksInto(a)), MassFlowSum(LinksOutOf(a)))
            /\ \A b \in AsmUnknowns \ {a} :
                /\ asmJ[a][b] = DerivativeSum(LinksBetween(a, b))
                /\ asmJ[a][b] = asmJ[b][a]

\* an assembly with two links joining the same two unknowns, one of them
\* also linked to an Ambient node
C28_Witness ==
    /\ asmPc = "assembled"
    /\ \E a, b \in AsmUnknowns :
        /\ a # b
        /\ Cardinality(LinksBetween(a, b)) = 2
        /\ Cardinality(IncidentLinks(a)) = 3
        /\ \E k \in IncidentLinks(a) :
             asmMap[asmNet.links[k].from] = -1 \/ asmMap[asmNet.links[k].to] = -1

\* an assembly with a link from an unknown to itself that carries flow
AsmSelfLoop ==
    /\ asmPc = "assembled"
    /\ \E k \in DOMAIN asmNet.links :
        /\ asmNet.links[k].from = asmNet.links[k].to
        /\ asmNet.links[k].massFlow # RZero
        /\ asmJ[asmMap[asmNet.links[k].from]][asmMap[asmNet.links[k].from]] # RZero

-----------------------------------------------------------------------------
(* Properties of the unknown map of solve.                                 *)

RcmUnknowns == 0..(getUnknownCount(rcmNet) - 1)

\* sq lists every element of S exactly once
IsPermutationOf(sq, S) ==
    /\ Len(sq) = Cardinality(S)
    /\ {sq[q] : q \in 1..Len(sq)} = S

\* the non-Ambient nodes have distinct equation indices in 0..n-1, the
\* Ambient nodes -1
NumbersUnknowns(umap) ==
    /\ \A i \in DOMAIN rcmNet.type :
        IF rcmNet.type[i] = "Ambient" THEN umap[i] = -1 ELSE umap[i] \in RcmUnknowns
    /\ \A i, j \in DOMAIN rcmNet.type :
        (i # j /\ umap[i] >= 0 /\ umap[j] >= 0) => umap[i] # umap[j]

\* C29: computeRCMOrdering returns a permutation of the unknowns 0..n-1 of
\* every network, connected or not, and the reordered unknown map of solve
\* gives the non-Ambient nodes distinct equation indices in 0..n-1 and the
\* Ambient nodes -1
C29_RcmPermutation ==
    /\ rcmPc \in {"ordered", "mapped"} => IsPermutationOf(rcmOut, RcmUnknowns)
    /\ rcmPc = "mapped" => NumbersUnknowns(rcmMap)

\* three unknowns of which the search reaches only the start vertex, and
\* a map that differs from the base numbering
C29_Witness ==
    /\ rcmPc = "mapped"
    /\ getUnknownCount(rcmNet) = 3
    /\ \E a \in RcmUnknowns : rcmAdj(rcmNet, a) = {}
    /\ \E a \in RcmUnknowns : rcmAdj(rcmNet, a) # {}
    /\ \E i \in DOMAIN rcmNet.type : rcmMap[i] # baseUnknownMap(rcmNet, i)

-----------------------------------------------------------------------------
(* Properties of the values applyActuators gives the actuators.            *)

\* the controllers that name actuator q, by position in the list
ControllersOf(q) == {c \in DOMAIN ctrl : ctrl[c].actuatorId = acts[q].id}

\* no controller names actuator q
Unreferenced(q) == ControllersOf(q) = {}

\* currentValue is the output of the first controller that names the
\* actuator, 0 if there is none
ValueFromFirst(q) ==
    acts[q].currentValue =
        IF Unreferenced(q) THEN RZero
        ELSE ctrl[CHOOSE c \in ControllersOf(q) : \A d \in ControllersOf(q) : c <= d].output

\* the link of actuator q holds a Damper
OnDamper(q) ==
    /\ acts[q].linkIdx \in DOMAIN kelems
    /\ kelems[acts[q].linkIdx] # <<>>
    /\ kelems[acts[q].linkIdx].kind = "Damper"

\* the Damper on the link of actuator q is a new object with fraction 0
DamperZeroed(q) ==
    /\ kelems[acts[q].linkIdx].setting = RZero
    /\ kelems[acts[q].linkIdx].obj >= kfresh - Len(acts)

\* the Damper on the link of actuator q is the object the link held at the
\* start, with its fraction
DamperUntouched(q) == kelems[acts[q].linkIdx] = PlantElements[acts[q].linkIdx]

\* no actuator of type DamperFraction acts on the link of actuator q
NoDamperActuator(q) ==
    \A q2 \in DOMAIN acts :
        acts[q2].type = "DamperFraction" => acts[q2].linkIdx # acts[q].linkIdx

\* C30, amended: after applyActuators every actuator's currentValue is the
\* output of the first controller of the list that names it, 0 if none does;
\* an actuator of type DamperFraction that no controller names, and that no
\* later actuator overrides, leaves a Damper on its link replaced by one
\* with fraction 0, while an actuator of another type leaves the Damper as
\* it was
C30_ActuatorValues ==
    ControlStepDone =>
        /\ \A q \in DOMAIN acts : ValueFromFirst(q)
        /\ \A q \in Acting :
             (acts[q].type = "DamperFraction" /\ Unreferenced(q)) => DamperZeroed(q)
        /\ \A q \in DOMAIN acts :
             (/\ Unreferenced(q)
              /\ OnDamper(q)
              /\ acts[q].type # "DamperFraction"
              /\ NoDamperActuator(q)) => DamperUntouched(q)

\* a damper actuator that no controller names has set the fully open damper
\* to 0, beside an actuator that took a controller output other than 0
C30_Witness ==
    /\ ControlStepDone
    /\ \E q \in Acting :
        /\ acts[q].type = "DamperFraction"
        /\ Unreferenced(q)
        /\ PlantElements[acts[q].linkIdx].setting = ROne
        /\ DamperZeroed(q)
    /\ \E q \in DOMAIN acts : ~Unreferenced(q) /\ acts[q].currentValue # RZero

\* C30 as stated: currentValue as above, and a Damper on the link of an
\* actuator that no controller names has fraction 0 after applyActuators
C30_Original ==
    ControlStepDone =>
        /\ \A q \in DOMAIN acts : ValueFromFirst(q)
        /\ \A q \in DOMAIN acts :
             (Unreferenced(q) /\ OnDamper(q)) => kelems[acts[q].linkIdx].setting = RZero

\* two controllers with different outputs name the same actuator
FirstOfTwo ==
    /\ ControlStepDone
    /\ \E q \in DOMAIN acts : \E c, d \in ControllersOf(q) :
        /\ c < d
        /\ ctrl[c].output # ctrl[d].output
        /\ acts[q].currentValue = ctrl[c].output

\* a fan actuator that no controller names has left the damper of its link
\* open
DamperLeftOpen ==
    /\ ControlStepDone
    /\ \E q \in DOMAIN acts :
        /\ Unreferenced(q)
        /\ OnDamper(q)
        /\ acts[q].type = "FanSpeed"
        /\ NoDamperActuator(q)
        /\ kelems[acts[q].linkIdx].setting = ROne

-----------------------------------------------------------------------------
(* Parts of the state held fixed while another component is explored.      *)

RunIdle ==
    /\ config = [startTime |-> 0, endTime |-> 0, timeStep |-> 1, outputInterval |-> 1]
    /\ feat \in {f \in FeatureSets : \A k \in DOMAIN f : ~f[k]}
    /\ pc = "idle"
    /\ t = 0
    /\ nextOutput = 0
    /\ currentDt = 0
    /\ history = <<>>
    /\ completed = FALSE
    /\ iter = 0
    /\ steps = 0
    /\ phaseLog = <<>>
    /\ emitDue = <<>>
    /\ cbCalls = 0
    /\ cancelled = FALSE
    /\ histAtCb = 0

ContIdle ==
    /\ net = <<>>
    /\ species = <<>>
    /\ sources = <<>>
    /\ rxnNetwork = <<>>
    /\ C = <<>>
    /\ cpc = "idle"
    /\ ctime = 0
    /\ csteps = 0
    /\ csets = 0
    /\ genLog = <<>>
    /\ ambDonor = {}
    /\ clast = <<>>

ElemIdle ==
    /\ elem = <<>>
    /\ elemIn = <<>>
    /\ elemOut = <<>>

AirIdle ==
    /\ anet = <<>>
    /\ asolver = <<>>
    /\ aspecies = <<>>
    /\ aconc = <<>>
    /\ apc = "idle"
    /\ aiter = 0
    /\ airResult = <<>>
    /\ alast = <<>>
    /\ arel = <<>>
    /\ asteps = 0

CtlIdle ==
    /\ ctrl = <<>>
    /\ sens = <<>>
    /\ acts = <<>>
    /\ plant = <<>>
    /\ kelems = <<>>
    /\ kdt = RZero
    /\ kpc = "idle"
    /\ klog = <<>>
    /\ klast = <<>>
    /\ kfresh = 0
    /\ ksteps = 0

SchedIdle ==
    /\ schedPts = <<>>
    /\ schedMode = "idle"
    /\ schedRes = <<>>
    /\ schedMoved = FALSE

WpcIdle ==
    /\ wpcIn = <<>>
    /\ wpcKind = <<>>
    /\ wpcPos = 0
    /\ wpcPrev = 0
    /\ wpcRecords = <<>>
    /\ wpcStatus = "idle"
    /\ wpcErr = ""

DynIdle ==
    /\ dynSetup = <<>>
    /\ dynExtra = <<>>
    /\ dynOccVec = <<>>
    /\ dynUsed = <<>>
    /\ dynBuilt = <<>>
    /\ dynPrev = <<>>
    /\ dynPc = "idle"
    /\ dynSteps = 0

TrIdle ==
    /\ trNet = <<>>
    /\ trRadius = RZero
    /\ trLast = <<>>
    /\ trCount = 0

OccIdle ==
    /\ occupants = <<>>
    /\ occSpecies = 0
    /\ occTime = RZero
    /\ occLast = <<>>
    /\ occSteps = 0

AsmIdle ==
    /\ asmNet = <<>>
    /\ asmMap = <<>>
    /\ asmJ = <<>>
    /\ asmR = <<>>
    /\ asmPc = "idle"

RcmIdle ==
    /\ rcmNet = <<>>
    /\ rcmOut = <<>>
    /\ rcmMap = <<>>
    /\ rcmPc = "idle"

-----------------------------------------------------------------------------
(* Specifications.                                                         *)

Init == RunInit /\ ContIdle /\ ElemIdle /\ AirIdle /\ CtlIdle /\ SchedIdle
    /\ RcmIdle
    /\ AsmIdle
    /\ OccIdle
    /\ TrIdle
    /\ DynIdle
    /\ WpcIdle

Next == RunNext /\ UNCHANGED <<contVars, elemVars, airVars, ctlVars, schedVars, wpcVars, dynVars, trVars, occVars, asmVars, rcmVars>>

Spec == Init /\ [][Next]_vars

\* run() is sequential code: whenever it can take its next step, it does.
SpecFair == Init /\ [][Next]_vars /\ WF_vars(Next)

InitCont == RunIdle /\ ContInit /\ ElemIdle /\ AirIdle /\ CtlIdle /\ RcmIdle
    /\ OccIdle /\ AsmIdle
    /\ DynIdle /\ TrIdle
    /\ SchedIdle /\ WpcIdle

NextCont == ContNext /\ UNCHANGED <<runVars, elemVars, airVars, ctlVars, schedVars, wpcVars, dynVars, trVars, occVars, asmVars, rcmVars>>

SpecCont == InitCont /\ [][NextCont]_vars

InitElem == RunIdle /\ ContIdle /\ ElemInit /\ AirIdle /\ CtlIdle /\ RcmIdle
    /\ OccIdle /\ AsmIdle
    /\ DynIdle /\ TrIdle
    /\ SchedIdle /\ WpcIdle

NextElem == ElemNext /\ UNCHANGED <<runVars, contVars, airVars, ctlVars, schedVars, wpcVars, dynVars, trVars, occVars, asmVars, rcmVars>>

SpecElem == InitElem /\ [][NextElem]_vars

InitAir == RunIdle /\ ContIdle /\ ElemIdle /\ AirInit /\ CtlIdle /\ RcmIdle
    /\ OccIdle /\ AsmIdle
    /\ DynIdle /\ TrIdle
    /\ SchedIdle /\ WpcIdle

NextAir == AirNext /\ UNCHANGED <<runVars, contVars, elemVars, ctlVars, schedVars, wpcVars, dynVars, trVars, occVars, asmVars, rcmVars>>

SpecAir == InitAir /\ [][NextAir]_vars

InitCtl == RunIdle /\ ContIdle /\ ElemIdle /\ AirIdle /\ CtlInit /\ RcmIdle
    /\ OccIdle /\ AsmIdle
    /\ DynIdle /\ TrIdle
    /\ SchedIdle /\ WpcIdle

NextCtl == CtlNext /\ UNCHANGED <<runVars, contVars, elemVars, airVars, schedVars, wpcVars, dynVars, trVars, occVars, asmVars, rcmVars>>

SpecCtl == InitCtl /\ [][NextCtl]_vars

InitSched == RunIdle /\ ContIdle /\ ElemIdle /\ AirIdle /\ CtlIdle
    /\ AsmIdle /\ RcmIdle
    /\ TrIdle /\ OccIdle
    /\ WpcIdle /\ DynIdle
    /\ SchedInit

NextSched == SchedNext /\ UNCHANGED <<runVars, contVars, elemVars, airVars,
         ctlVars, wpcVars, dynVars, trVars, occVars, asmVars, rcmVars>>

SpecSched == InitSched /\ [][NextSched]_vars

InitWpc == RunIdle /\ ContIdle /\ ElemIdle /\ AirIdle /\ CtlIdle /\ RcmIdle
    /\ OccIdle /\ AsmIdle
    /\ DynIdle /\ TrIdle
    /\ SchedIdle /\ WpcInit

NextWpc == WpcNext /\ UNCHANGED <<runVars, contVars, elemVars, airVars,
         ctlVars, schedVars, dynVars, trVars, occVars, asmVars, rcmVars>>

SpecWpc == InitWpc /\ [][NextWpc]_vars

InitDyn == RunIdle /\ ContIdle /\ ElemIdle /\ AirIdle /\ CtlIdle /\ TrIdle
    /\ RcmIdle
    /\ AsmIdle
    /\ OccIdle
    /\ SchedIdle /\ WpcIdle /\ DynInit

NextDyn == DynNext /\ UNCHANGED <<runVars, contVars, elemVars, airVars,
         ctlVars, schedVars, wpcVars, trVars, occVars, asmVars, rcmVars>>

SpecDyn == InitDyn /\ [][NextDyn]_vars

InitTr == RunIdle /\ ContIdle /\ ElemIdle /\ AirIdle /\ CtlIdle /\ DynIdle
    /\ RcmIdle
    /\ AsmIdle
    /\ OccIdle
    /\ SchedIdle /\ WpcIdle /\ TrInit

NextTr == TrNext /\ UNCHANGED <<runVars, contVars, elemVars, airVars,
         ctlVars, schedVars, wpcVars, dynVars, occVars, asmVars, rcmVars>>

SpecTr == InitTr /\ [][NextTr]_vars

InitOcc == RunIdle /\ ContIdle /\ ElemIdle /\ AirIdle /\ CtlIdle
    /\ AsmIdle /\ RcmIdle
    /\ DynIdle /\ TrIdle /\ SchedIdle /\ WpcIdle /\ OccInit

NextOcc == OccNext /\ UNCHANGED <<runVars, contVars, elemVars, airVars,
         ctlVars, schedVars, wpcVars, dynVars, trVars, asmVars, rcmVars>>

SpecOcc == InitOcc /\ [][NextOcc]_vars

InitAsm == RunIdle /\ ContIdle /\ ElemIdle /\ AirIdle /\ CtlIdle /\ RcmIdle
    /\ OccIdle /\ DynIdle /\ TrIdle /\ SchedIdle /\ WpcIdle /\ AsmInit

NextAsm == AsmNext /\ UNCHANGED <<runVars, contVars, elemVars, airVars,
         ctlVars, schedVars, wpcVars, dynVars, trVars, occVars, rcmVars>>

SpecAsm == InitAsm /\ [][NextAsm]_vars

InitRcm == RunIdle /\ ContIdle /\ ElemIdle /\ AirIdle /\ CtlIdle
    /\ OccIdle /\ AsmIdle /\ DynIdle /\ TrIdle /\ SchedIdle /\ WpcIdle /\ RcmInit

NextRcm == RcmNext /\ UNCHANGED <<runVars, contVars, elemVars, airVars,
         ctlVars, schedVars, wpcVars, dynVars, trVars, occVars, asmVars>>

SpecRcm == InitRcm /\ [][NextRcm]_vars

====
